---- MODULE Spec2Model ----
(***************************************************************************)
(* pgcopy: replication of table data from a source PostgreSQL instance,    *)
(* reached through an SSH tunnel, to remote instances reached through      *)
(* dblink.  The model follows src/src/pgcopy:                              *)
(*   main.py        start()                                                *)
(*   connection.py  create_pg_connection(), _forward_tunnel()              *)
(*   fdw_copy.py    copy_local_to_remote_via_dblink_values(),              *)
(*                  _create_server_object(), _drop_server_object(), ...    *)
(* Seven specifications share the variables:                               *)
(*   Spec      one run of start()                                          *)
(*   SpecCopy  one call of copy_local_to_remote_via_dblink_values()        *)
(*   SpecReg   successive calls of _create_server_object()                 *)
(*   SpecFwd   the _forward_tunnel() thread, its handlers and their peers  *)
(*   SpecRoute one call of process_all_routes()                            *)
(*   SpecInsert the insert statements of one call, with the row values     *)
(*   SpecRuns  successive runs of start() in one process: the calling      *)
(*             thread of create_pg_connection() and the forwarder threads  *)
(***************************************************************************)
EXTENDS Integers, Sequences, FiniteSets, TLC

None == "None"

\* the absent value of a record-valued field
Absent == [absent |-> TRUE]

(***************************************************************************)
(* Bounds of the model.                                                    *)
(***************************************************************************)
\* number of (destination, table) pairs of the routing table
MaxRoutes == 2
\* number of rows in the source table
MaxRows == 3
\* largest batch_size argument
MaxBatch == 2
\* largest row_limit argument
MaxLimit == 1
\* longest destination column list
MaxCols == 2
\* number of successive registration calls
MaxCalls == 2
\* number of clients that connect to the listening endpoint
MaxConns == 2
\* number of writes and shutdowns by the peers of the forwarded connections
MaxEvents == 2
\* number of destinations of a routing table
MaxHosts == 2
\* number of tables of a destination
MaxTables == 2

\* runs of start() in one process
MaxRuns == 3

VARIABLES
    \* ---- start() / create_pg_connection() ----
    spc,                  \* position of start()
    ssh_key_valid,        \* the private key material parses as an RSA key
    known_hosts,          \* the bastion in the system host keys: match, other, absent
    login_ok,             \* the bastion accepts the private-key login
    server_key,           \* the host key the bastion presents
    expected_fingerprint, \* the expected_fingerprint argument
    client,               \* paramiko.SSHClient: none, created, connected, closed
    fingerprint,          \* the fingerprint computed from the host key, or Absent
    forwarder,            \* the _forward_tunnel thread: none, started
    conn,                 \* the psycopg2 connection: none, open, closed
    error,                \* the exception start() ended with, or None
    authenticated,        \* client.connect() returned
    verified,             \* the fingerprint comparison passed
    route,                \* index of the next (destination, table) pair
    routing,              \* number of (destination, table) pairs, or None
    copy_calls,           \* calls of copy_local_to_remote_via_dblink_values so far
    \* ---- copy_local_to_remote_via_dblink_values() ----
    cpc,                  \* position of the call
    remote_server,        \* argument: name of the foreign server
    remote_opts,          \* arguments remote_host, remote_port, remote_db
    remote_cred,          \* arguments remote_user, remote_password
    batch_size,           \* argument
    row_limit,            \* argument (<<>>: None, no limit)
    remote_table_cols,    \* destination catalog: ordered (name, type) pairs
    local_table_cols,     \* source catalog: set of column names
    local_table_rows,     \* number of rows of the source table
    alive,                \* the source connection is usable
    txn,                  \* its transaction state: idle, open, aborted
    servers,              \* committed foreign servers: name -> Absent or binding
    servers_tx,           \* foreign servers as seen inside the open transaction
    remote_cols,          \* local: result of _get_remote_cols_and_types
    local_cols,           \* local: source column names
    common_cols,          \* local: ColumnSet
    rows,                 \* local: fetched rows
    i,                    \* local: loop variable of the chunk loop
    rows_copied,          \* local: counter of applied rows
    result,               \* the value returned, or None
    raised,               \* the exception the call ended with, or None
    executed,             \* statements executed so far, in order
    log,                  \* log records emitted so far, in order
    dest,                 \* rows present at the destination
    outcome,              \* per attempted chunk: Committed or RolledBack
    calls                 \* registration calls made so far

startVars == <<spc, ssh_key_valid, known_hosts, login_ok, server_key,
               expected_fingerprint, client, fingerprint, forwarder, conn,
               error, authenticated, verified, route, routing, copy_calls>>

argVars == <<remote_server, remote_opts, remote_cred, batch_size, row_limit>>
envVars == <<remote_table_cols, local_table_cols, local_table_rows>>
dbVars == <<alive, txn, servers, servers_tx>>
localVars == <<remote_cols, local_cols, common_cols, rows, i, rows_copied>>
histVars == <<executed, log, dest, outcome>>

copyVars == <<cpc, argVars, envVars, dbVars, localVars, result, raised,
              histVars, calls>>

VARIABLES
    \* ---- _forward_tunnel() ----
    fpc,                  \* position of the thread: bind, accept, failed
    listener,             \* the listening socket: none, listening
    transport,            \* the SSH transport: open, closed
    cancelled,            \* start() has closed the connection and the session
    hpc,                  \* per client: position of its handler thread
    client_sock,          \* per client: the accepted socket: none, open, closed
    chan,                 \* per client: the channel: none, open, closed
    r,                    \* per client: the ready list of the last select()
    up,                   \* per client: the bytes from the client to the channel
    down,                 \* per client: the bytes from the channel to the client
    ended,                \* per client: what ended the relay, or None
    closes                \* per client: the close() calls of the handler, in order

fwdVars == <<fpc, listener, transport, cancelled, hpc, client_sock, chan, r,
             up, down, ended, closes>>

VARIABLES
    \* ---- process_all_routes() ----
    rpc,                  \* position of the call
    routes,               \* the routing argument: the entries in dict order
    host_ix,              \* index of the current destination
    table_ix,             \* index of the current table of the destination
    invoked,              \* the copy calls made so far, with their arguments
    route_log,            \* log records emitted so far, in order
    escaped               \* the exception that left process_all_routes, or None

routeVars == <<rpc, routes, host_ix, table_ix, invoked, route_log, escaped>>

VARIABLES
    \* ---- the insert statement of a chunk (fdw_copy.py 213-243) ----
    source_rows,          \* the rows of the source table: column name -> value
    chunk,                \* local: the rows of the current chunk
    insert_stmt           \* local: the statement built for the chunk, or Absent

insertVars == <<source_rows, chunk, insert_stmt>>

VARIABLES
    \* ---- successive runs of start() in one process ----
    run,                  \* the number of the current run
    mpc,                  \* position of the calling thread in the current run
    session,              \* per run: its SSH client: none, open, closed
    tpc,                  \* per run: its _forward_tunnel thread: unborn, bind,
                          \*   accept, failed
    holder,               \* the run whose socket listens at (local_host,
                          \*   local_port), 0 when no socket does
    reached,              \* per run: the run whose listener its database
                          \*   connection reached, 0 for none listening, -1
                          \*   before the attempt
    via,                  \* per run: the run over whose session its database
                          \*   connection was forwarded, 0 before that
    db_conn               \* per run: its psycopg2 connection: none, open, closed

runVars == <<run, mpc, session, tpc, holder, reached, via, db_conn>>

vars == <<startVars, copyVars, fwdVars, routeVars, insertVars, runVars>>

(***************************************************************************)
(* connection.py: the fingerprint of a host key.  sha256 is an injective   *)
(* map on the keys of the model; the digest is base64-encoded and the      *)
(* padding stripped.  An expected fingerprint may name the same digest in  *)
(* another form (padded base64, hex), which is a different text.           *)
(***************************************************************************)
HostKeys == {"hostkeyA", "hostkeyB"}

Sha256(key) == <<"sha256", key>>

B64Encode(digest) == [digest |-> digest, form |-> "base64", padded |-> TRUE]

RstripPad(text) == [text EXCEPT !.padded = FALSE]

ComputeFingerprint(key) == RstripPad(B64Encode(Sha256(key)))

HexDigest(key) == [digest |-> Sha256(key), form |-> "hex", padded |-> FALSE]

ExpectedFingerprints ==
    {ComputeFingerprint(k) : k \in HostKeys}
        \cup {B64Encode(Sha256("hostkeyA")), HexDigest("hostkeyA")}

StartUnchanged == UNCHANGED <<copyVars, fwdVars, routeVars, insertVars, runVars>>

\* an exception leaves start(): nothing after the raising statement runs
RaiseSwallowed(e) ==
    /\ spc' = "build_routing"
    /\ error' = e

RaiseStart(e) ==
    /\ spc' = "raised"
    /\ error' = e

StartInit ==
    /\ spc = "get_secret"
    /\ ssh_key_valid \in BOOLEAN
    /\ known_hosts \in {"match", "other", "absent"}
    /\ login_ok \in BOOLEAN
    /\ server_key \in HostKeys
    /\ expected_fingerprint \in ExpectedFingerprints
    /\ client = "none"
    /\ fingerprint = Absent
    /\ forwarder = "none"
    /\ conn = "none"
    /\ error = None
    /\ authenticated = FALSE
    /\ verified = FALSE
    /\ route = 1
    /\ routing = None
    /\ copy_calls = 0

\* main.py 16-18: get_secret(pgcopy.config.source); a ClientError propagates
GetSecret ==
    /\ spc = "get_secret"
    /\ \/ /\ spc' = "load_key"
          /\ error' = error
       \/ RaiseStart("ClientError")
    /\ UNCHANGED <<ssh_key_valid, known_hosts, login_ok, server_key,
                   expected_fingerprint, client, fingerprint, forwarder, conn,
                   authenticated, verified, route, routing, copy_calls>>
    /\ StartUnchanged

\* connection.py 145-150: the client with the system host keys and the
\* reject policy; the private key is parsed from the string
LoadKey ==
    /\ spc = "load_key"
    /\ client' = "created"
    /\ IF ssh_key_valid
          THEN spc' = "ssh_connect" /\ error' = error
          ELSE RaiseStart("SSHException")
    /\ UNCHANGED <<ssh_key_valid, known_hosts, login_ok, server_key,
                   expected_fingerprint, fingerprint, forwarder, conn,
                   authenticated, verified, route, routing, copy_calls>>
    /\ StartUnchanged

\* connection.py 146-147, 151: client.connect().  paramiko checks the host
\* key against the loaded host keys before it authenticates: an unknown host
\* goes to the RejectPolicy, a known host with another key is a bad host key.
SshConnect ==
    /\ spc = "ssh_connect"
    /\ CASE known_hosts = "absent" ->
                /\ RaiseStart("SSHException")
                /\ UNCHANGED <<client, authenticated>>
         [] known_hosts = "other" ->
                /\ RaiseStart("BadHostKeyException")
                /\ UNCHANGED <<client, authenticated>>
         [] known_hosts = "match" /\ ~login_ok ->
                /\ RaiseStart("AuthenticationException")
                /\ UNCHANGED <<client, authenticated>>
         [] known_hosts = "match" /\ login_ok ->
                /\ client' = "connected"
                /\ authenticated' = TRUE
                /\ spc' = "check_fingerprint"
                /\ error' = error
    /\ UNCHANGED <<ssh_key_valid, known_hosts, login_ok, server_key,
                   expected_fingerprint, fingerprint, forwarder, conn,
                   verified, route, routing, copy_calls>>
    /\ StartUnchanged

\* a fingerprint check that reports the mismatch and goes on
CheckFingerprintLenient ==
    /\ spc = "check_fingerprint"
    /\ fingerprint' = ComputeFingerprint(server_key)
    /\ verified' = (fingerprint' = expected_fingerprint)
    /\ spc' = "start_forwarder"
    /\ UNCHANGED <<client, error>>
    /\ UNCHANGED <<ssh_key_valid, known_hosts, login_ok, server_key,
                   expected_fingerprint, forwarder, conn,
                   authenticated, route, routing, copy_calls>>
    /\ StartUnchanged

\* a fingerprint check against the hex digest of the host key
CheckFingerprintHex ==
    /\ spc = "check_fingerprint"
    /\ fingerprint' = HexDigest(server_key)
    /\ IF fingerprint' # expected_fingerprint
          THEN /\ client' = "closed"
               /\ RaiseStart("ValueError")
               /\ UNCHANGED verified
          ELSE /\ verified' = TRUE
               /\ spc' = "start_forwarder"
               /\ UNCHANGED <<client, error>>
    /\ UNCHANGED <<ssh_key_valid, known_hosts, login_ok, server_key,
                   expected_fingerprint, forwarder, conn,
                   authenticated, route, routing, copy_calls>>
    /\ StartUnchanged

\* connection.py 153-163: the fingerprint of the remote server key against
\* expected_fingerprint; on a mismatch the client is closed and ValueError raised
CheckFingerprint ==
    /\ spc = "check_fingerprint"
    /\ fingerprint' = ComputeFingerprint(server_key)
    /\ IF fingerprint' # expected_fingerprint
          THEN /\ client' = "closed"
               /\ RaiseStart("ValueError")
               /\ UNCHANGED verified
          ELSE /\ verified' = TRUE
               /\ spc' = "start_forwarder"
               /\ UNCHANGED <<client, error>>
    /\ UNCHANGED <<ssh_key_valid, known_hosts, login_ok, server_key,
                   expected_fingerprint, forwarder, conn,
                   authenticated, route, routing, copy_calls>>
    /\ StartUnchanged

\* connection.py 165-173: the daemon thread running _forward_tunnel is started
StartForwarder ==
    /\ spc = "start_forwarder"
    /\ forwarder' = "started"
    /\ spc' = "pg_connect"
    /\ UNCHANGED <<ssh_key_valid, known_hosts, login_ok, server_key,
                   expected_fingerprint, client, fingerprint, conn, error,
                   authenticated, verified, route, routing, copy_calls>>
    /\ StartUnchanged

\* connection.py 175-184: psycopg2.connect() to the local end of the tunnel;
\* its error propagates
PgConnect ==
    /\ spc = "pg_connect"
    /\ \/ /\ conn' = "open"
          /\ spc' = "build_routing"
          /\ error' = error
       \/ /\ RaiseStart("OperationalError")
          /\ conn' = conn
    /\ UNCHANGED <<ssh_key_valid, known_hosts, login_ok, server_key,
                   expected_fingerprint, client, fingerprint, forwarder,
                   authenticated, verified, route, routing, copy_calls>>
    /\ StartUnchanged

\* main.py 30: build_routing(); the secret store may fail
BuildRouting ==
    /\ spc = "build_routing"
    /\ \/ /\ \E n \in 0..MaxRoutes : routing' = n
          /\ spc' = "process_all_routes"
          /\ error' = error
       \/ /\ RaiseStart("ClientError")
          /\ routing' = routing
    /\ UNCHANGED <<ssh_key_valid, known_hosts, login_ok, server_key,
                   expected_fingerprint, client, fingerprint, forwarder, conn,
                   authenticated, verified, route, copy_calls>>
    /\ StartUnchanged

\* routing.py 57-92 (main.py 33-35): one (destination, table) pair is copied;
\* whatever the copy returns or raises, the loop goes on (routing.py 91-96)
ProcessRoute ==
    /\ spc = "process_all_routes"
    /\ route <= routing
    /\ copy_calls' = copy_calls + 1
    /\ route' = route + 1
    /\ UNCHANGED <<spc, ssh_key_valid, known_hosts, login_ok, server_key,
                   expected_fingerprint, client, fingerprint, forwarder, conn,
                   error, authenticated, verified, routing>>
    /\ StartUnchanged

\* a cleanup that does not wait for the routes
CloseConnEarly ==
    /\ spc = "process_all_routes"
    /\ conn' = "closed"
    /\ spc' = "close_ssh"
    /\ UNCHANGED <<ssh_key_valid, known_hosts, login_ok, server_key,
                   expected_fingerprint, client, fingerprint, forwarder,
                   error, authenticated, verified, route, routing, copy_calls>>
    /\ StartUnchanged

\* main.py 33-38: process_all_routes returned; conn.close()
CloseConn ==
    /\ spc = "process_all_routes"
    /\ route > routing
    /\ conn' = "closed"
    /\ spc' = "close_ssh"
    /\ UNCHANGED <<ssh_key_valid, known_hosts, login_ok, server_key,
                   expected_fingerprint, client, fingerprint, forwarder,
                   error, authenticated, verified, route, routing, copy_calls>>
    /\ StartUnchanged

\* main.py 39: ssh_client.close()
CloseSsh ==
    /\ spc = "close_ssh"
    /\ client' = "closed"
    /\ spc' = "done"
    /\ UNCHANGED <<ssh_key_valid, known_hosts, login_ok, server_key,
                   expected_fingerprint, fingerprint, forwarder, conn,
                   error, authenticated, verified, route, routing, copy_calls>>
    /\ StartUnchanged

StartNext ==
    \/ GetSecret
    \/ LoadKey
    \/ SshConnect
    \/ CheckFingerprint
    \/ StartForwarder
    \/ PgConnect
    \/ BuildRouting
    \/ ProcessRoute
    \/ CloseConn
    \/ CloseSsh

(***************************************************************************)
(* fdw_copy.py: the source connection.  psycopg2 opens a transaction with  *)
(* the first statement; a statement that fails on the server leaves the    *)
(* transaction aborted, and every statement but the end of the transaction *)
(* then fails; on a lost connection every call on it raises.               *)
(***************************************************************************)
Min(a, b) == IF a < b THEN a ELSE b

Stmt(sql, on) == [sql |-> sql, on |-> on]

\* cur.execute() of an ordinary statement returns
StmtOk ==
    /\ alive
    /\ txn # "aborted"
    /\ alive' = TRUE
    /\ txn' = "open"

\* cur.execute() of an ordinary statement raises: the connection is or gets
\* lost, or the server reports an error
StmtFails ==
    /\ alive' \in (IF alive THEN BOOLEAN ELSE {FALSE})
    /\ txn' = IF alive' THEN "aborted" ELSE txn

\* BEGIN, COMMIT or ROLLBACK raise on a lost connection only
CtlFails ==
    /\ alive' = FALSE
    /\ txn' = txn

\* the call ends with an exception
Raise(e) ==
    /\ cpc' = "raised"
    /\ raised' = e

(***************************************************************************)
(* Identifiers.  sql.Identifier() double-quotes a name, which keeps its    *)
(* case; a name put into the statement text as it is, is folded to lower   *)
(* case by the server.                                                     *)
(***************************************************************************)
ServerNames == {"pygrate_db", "pygrate_DB"}

Fold(name) == IF name = "pygrate_DB" THEN "pygrate_db" ELSE name

Quoted(name) == name

Unquoted(name) == Fold(name)

ServerOpts == {[host |-> "hostA", port |-> "5432", dbname |-> "db_1"],
               [host |-> "hostB", port |-> "5432", dbname |-> "db_1"]}

UserMappings == {[user |-> "postgres", password |-> "pw1"],
                 [user |-> "postgres", password |-> "pw2"]}

NoServers == [n \in ServerNames |-> Absent]

(***************************************************************************)
(* Catalogs of the two tables.                                             *)
(***************************************************************************)
DestNames == {"id", "name", "only_remote"}

SourceNames == {"id", "name", "ignored"}

TypeText(c) ==
    CASE c = "id" -> "integer"
      [] c = "name" -> "text"
      [] OTHER -> "text[]"

\* duplicate-free column lists of a destination table, in ordinal order
ColumnLists ==
    {s \in UNION {[1..k -> DestNames] : k \in 0..MaxCols} :
        \A a, b \in DOMAIN s : a # b => s[a] # s[b]}

RemoteCatalogs == {[k \in DOMAIN s |-> <<s[k], TypeText(s[k])>>] : s \in ColumnLists}

BatchSizes == (0 - 1)..MaxBatch

\* the optional row_limit: <<>> is None, <<k>> a limit of k rows
RowLimits == {<<>>} \cup {<<k>> : k \in 0..MaxLimit}

CopyUnchanged == UNCHANGED <<startVars, fwdVars, routeVars, insertVars, runVars>>

StartIdle ==
    /\ spc = "idle"
    /\ ssh_key_valid = TRUE
    /\ known_hosts = "match"
    /\ login_ok = TRUE
    /\ server_key = "hostkeyA"
    /\ expected_fingerprint = ComputeFingerprint("hostkeyA")
    /\ client = "connected"
    /\ fingerprint = ComputeFingerprint("hostkeyA")
    /\ forwarder = "started"
    /\ conn = "open"
    /\ error = None
    /\ authenticated = TRUE
    /\ verified = TRUE
    /\ route = 1
    /\ routing = None
    /\ copy_calls = 0

(***************************************************************************)
(* connection.py 26-89: _forward_tunnel.  A stream holds the bytes one     *)
(* peer of a forwarded connection writes: the bytes are numbered in the    *)
(* order they are written, read counts those the handler has received and  *)
(* got lists those the handler has sent on to the other side.              *)
(***************************************************************************)
Conns == 1..MaxConns

NewStream == [written |-> 0, eof |-> FALSE, read |-> 0, got |-> <<>>]

FwdFresh ==
    /\ listener = "none"
    /\ transport = "open"
    /\ cancelled = FALSE
    /\ hpc = [c \in Conns |-> "unborn"]
    /\ client_sock = [c \in Conns |-> "none"]
    /\ chan = [c \in Conns |-> "none"]
    /\ r = [c \in Conns |-> {}]
    /\ up = [c \in Conns |-> NewStream]
    /\ down = [c \in Conns |-> NewStream]
    /\ ended = [c \in Conns |-> None]
    /\ closes = [c \in Conns |-> <<>>]

FwdIdle ==
    /\ fpc = "idle"
    /\ FwdFresh

\* connection.py 165-171: the thread running _forward_tunnel has been started
FwdInit ==
    /\ fpc = "bind"
    /\ FwdFresh

RouteIdle ==
    /\ rpc = "idle"
    /\ routes = <<>>
    /\ host_ix = 1
    /\ table_ix = 1
    /\ invoked = <<>>
    /\ route_log = <<>>
    /\ escaped = None

\* no insert statement is being built
InsertIdle ==
    /\ source_rows = <<>>
    /\ chunk = <<>>
    /\ insert_stmt = Absent

\* no run of start() is followed
RunsIdle ==
    /\ run = 0
    /\ mpc = "idle"
    /\ session = <<>>
    /\ tpc = <<>>
    /\ holder = 0
    /\ reached = <<>>
    /\ via = <<>>
    /\ db_conn = <<>>

CallInit ==
    /\ cpc = "create_extension"
    /\ alive = TRUE
    /\ txn = "idle"
    /\ servers = NoServers
    /\ servers_tx = NoServers
    /\ remote_cols = <<>>
    /\ local_cols = {}
    /\ common_cols = <<>>
    /\ rows = <<>>
    /\ i = 0
    /\ rows_copied = 0
    /\ result = None
    /\ raised = None
    /\ executed = <<>>
    /\ log = <<>>
    /\ dest = {}
    /\ outcome = <<>>
    /\ calls = 1

CopyInit ==
    /\ CallInit
    /\ remote_server = "pygrate_db"
    /\ remote_opts = [host |-> "hostA", port |-> "5432", dbname |-> "db_1"]
    /\ remote_cred = [user |-> "postgres", password |-> "pw1"]
    /\ batch_size \in BatchSizes
    /\ row_limit \in RowLimits
    /\ remote_table_cols \in RemoteCatalogs
    /\ local_table_cols \in SUBSET SourceNames
    /\ local_table_rows \in 0..MaxRows

CopyIdle ==
    /\ CallInit
    /\ remote_server = "pygrate_db"
    /\ remote_opts = [host |-> "hostA", port |-> "5432", dbname |-> "db_1"]
    /\ remote_cred = [user |-> "postgres", password |-> "pw1"]
    /\ batch_size = 1
    /\ row_limit = <<>>
    /\ remote_table_cols = <<>>
    /\ local_table_cols = {}
    /\ local_table_rows = 0

RegInit ==
    /\ CallInit
    /\ remote_server \in ServerNames
    /\ remote_opts \in ServerOpts
    /\ remote_cred \in UserMappings
    /\ batch_size = 1
    /\ row_limit = <<>>
    /\ remote_table_cols = <<>>
    /\ local_table_cols = {}
    /\ local_table_rows = 0

(***************************************************************************)
(* fdw_copy.py 274-338: _create_server_object and _drop_server_object.     *)
(***************************************************************************)
\* conn.commit(): the transaction ends; an aborted one is rolled back
CommitOk ==
    /\ alive
    /\ alive' = TRUE
    /\ txn' = "idle"
    /\ IF txn = "aborted"
          THEN servers_tx' = servers /\ servers' = servers
          ELSE servers' = servers_tx /\ servers_tx' = servers_tx

CommitFails ==
    /\ CtlFails
    /\ UNCHANGED <<servers, servers_tx>>

\* DROP SERVER IF EXISTS <name> CASCADE: the server of that name and its user
\* mappings are gone
DropServer(cat, name) == [cat EXCEPT ![name] = Absent]

\* CREATE SERVER IF NOT EXISTS <name> ... OPTIONS (host, port, dbname): an
\* existing server of that name is kept as it is
CreateServer(cat, name, opts) ==
    IF cat[name] = Absent
       THEN [cat EXCEPT ![name] = [opts |-> opts, mapping |-> Absent]]
       ELSE cat

\* CREATE USER MAPPING IF NOT EXISTS FOR CURRENT_USER SERVER <name>
\* OPTIONS (user, password): an existing mapping is kept as it is
CreateUserMapping(cat, name, cred) ==
    IF cat[name].mapping = Absent
       THEN [cat EXCEPT ![name].mapping = cred]
       ELSE cat

\* what no registration step changes
RegFrame ==
    /\ UNCHANGED <<argVars, envVars, localVars, result, log, dest, outcome, calls>>
    /\ CopyUnchanged

\* fdw_copy.py 288-289: CREATE EXTENSION IF NOT EXISTS dblink
CreateExtension ==
    /\ cpc = "create_extension"
    /\ executed' = Append(executed, Stmt("CREATE EXTENSION", "conn"))
    /\ \/ /\ StmtOk
          /\ cpc' = "drop_server"
          /\ UNCHANGED raised
       \/ /\ StmtFails
          /\ Raise("DatabaseError")
    /\ UNCHANGED <<servers, servers_tx>>
    /\ RegFrame

\* fdw_copy.py 291, 332-337: DROP SERVER IF EXISTS {srv} CASCADE with the
\* server name as a quoted identifier
DropServerObject ==
    /\ cpc = "drop_server"
    /\ executed' = Append(executed, Stmt("DROP SERVER", "conn"))
    /\ \/ /\ StmtOk
          /\ servers_tx' = DropServer(servers_tx, Quoted(remote_server))
          /\ cpc' = "drop_commit"
          /\ UNCHANGED raised
       \/ /\ StmtFails
          /\ Raise("DatabaseError")
          /\ UNCHANGED servers_tx
    /\ UNCHANGED servers
    /\ RegFrame

\* fdw_copy.py 338: conn.commit() of _drop_server_object
DropCommit ==
    /\ cpc = "drop_commit"
    /\ \/ /\ CommitOk
          /\ cpc' = "create_server"
          /\ UNCHANGED raised
       \/ /\ CommitFails
          /\ Raise("OperationalError")
    /\ UNCHANGED executed
    /\ RegFrame

\* fdw_copy.py 293-302: CREATE SERVER IF NOT EXISTS with the server name put
\* into the statement text unquoted
CreateServerObject ==
    /\ cpc = "create_server"
    /\ executed' = Append(executed, Stmt("CREATE SERVER", "conn"))
    /\ \/ /\ StmtOk
          /\ servers_tx' = CreateServer(servers_tx, Unquoted(remote_server), remote_opts)
          /\ cpc' = "create_user_mapping"
          /\ UNCHANGED raised
       \/ /\ StmtFails
          /\ Raise("DatabaseError")
          /\ UNCHANGED servers_tx
    /\ UNCHANGED servers
    /\ RegFrame

\* fdw_copy.py 304-313: CREATE USER MAPPING IF NOT EXISTS, server name unquoted
CreateUserMappingObject ==
    /\ cpc = "create_user_mapping"
    /\ executed' = Append(executed, Stmt("CREATE USER MAPPING", "conn"))
    /\ \/ /\ StmtOk
          /\ servers_tx' = CreateUserMapping(servers_tx, Unquoted(remote_server), remote_cred)
          /\ cpc' = "select_server"
          /\ UNCHANGED raised
       \/ /\ StmtFails
          /\ Raise("DatabaseError")
          /\ UNCHANGED servers_tx
    /\ UNCHANGED servers
    /\ RegFrame

\* fdw_copy.py 315-319: SELECT srvname, srvoptions FROM pg_foreign_server
SelectServer ==
    /\ cpc = "select_server"
    /\ executed' = Append(executed, Stmt("SELECT pg_foreign_server", "conn"))
    /\ \/ /\ StmtOk
          /\ cpc' = "reg_commit"
          /\ UNCHANGED raised
       \/ /\ StmtFails
          /\ Raise("DatabaseError")
    /\ UNCHANGED <<servers, servers_tx>>
    /\ RegFrame

\* fdw_copy.py 321: conn.commit() of _create_server_object
RegCommit ==
    /\ cpc = "reg_commit"
    /\ \/ /\ CommitOk
          /\ cpc' = "describe_remote"
          /\ UNCHANGED raised
       \/ /\ CommitFails
          /\ Raise("OperationalError")
    /\ UNCHANGED executed
    /\ RegFrame

\* routing.py 70-98: the next table copy on the same connection registers
\* its destination again
NextRegistration ==
    /\ cpc \in {"describe_remote", "raised"}
    /\ calls < MaxCalls
    /\ calls' = calls + 1
    /\ remote_server' \in ServerNames
    /\ remote_opts' \in ServerOpts
    /\ remote_cred' \in UserMappings
    /\ cpc' = "create_extension"
    /\ raised' = None
    /\ executed' = <<>>
    /\ UNCHANGED <<batch_size, row_limit, envVars, dbVars, localVars, result,
                   log, dest, outcome>>
    /\ CopyUnchanged

RegNext ==
    \/ CreateExtension
    \/ DropServerObject
    \/ DropCommit
    \/ CreateServerObject
    \/ CreateUserMappingObject
    \/ SelectServer
    \/ RegCommit
    \/ NextRegistration

InitReg == StartIdle /\ RegInit /\ FwdIdle /\ RouteIdle /\ InsertIdle /\ RunsIdle

SpecReg == InitReg /\ [][RegNext]_vars

(***************************************************************************)
(* fdw_copy.py 126-271: copy_local_to_remote_via_dblink_values after the   *)
(* registration.                                                           *)
(***************************************************************************)
Bool(b) == IF b THEN "True" ELSE "False"

Range(s) == {s[k] : k \in DOMAIN s}

\* fdw_copy.py 171: remote_col_names = [name for name, _ in remote_cols]
RemoteColNames(cols) == [k \in DOMAIN cols |-> cols[k][1]]

\* fdw_copy.py 172: remote_type_texts = {name: typ for name, typ in remote_cols}
RemoteTypeTexts(cols) ==
    [c \in Range(RemoteColNames(cols)) |->
        cols[CHOOSE k \in DOMAIN cols :
                /\ cols[k][1] = c
                /\ \A m \in DOMAIN cols : cols[m][1] = c => m <= k][2]]

\* the order in which the source catalog lists its columns
SourceOrder == <<"name", "id", "ignored">>

\* the overlap taken in the order of the source columns
CommonColsSourceOrder(names, local) ==
    SelectSeq(SourceOrder, LAMBDA c : c \in local /\ c \in Range(names))

\* fdw_copy.py 192: common_cols = [c for c in remote_col_names if c in local_cols]
CommonCols(names, local) == SelectSeq(names, LAMBDA c : c \in local)

\* fdw_copy.py 68-88: the rows _get_local_rows returns, in scan order
LocalRows(n, limit) ==
    [k \in 1..(IF limit = <<>> THEN n ELSE Min(limit[1], n)) |-> k]

\* a slice that starts one row early
ChunkOverlap(rs, at, size) ==
    {rs[k] : k \in {m \in DOMAIN rs : at <= m /\ m <= at + size}}

\* fdw_copy.py 233: chunk = rows[i : i + batch_size]
Chunk(rs, at, size) == {rs[k] : k \in (at + 1)..Min(at + size, Len(rs))}

\* fdw_copy.py 255, 259: i // batch_size + 1
ChunkNo(at, size) == (at \div size) + 1

LogRec(level, msg, n) == [level |-> level, msg |-> msg, n |-> n]

\* what no step after the registration changes
CopyFrame ==
    /\ UNCHANGED <<argVars, envVars, calls>>
    /\ CopyUnchanged

\* a lookup of the destination columns that returns the empty list as it is
DescribeRemoteNoCheck ==
    /\ cpc = "describe_remote"
    /\ executed' = Append(executed, Stmt("SELECT pg_attribute", "dblink"))
    /\ \/ /\ StmtOk
          /\ remote_cols' = remote_table_cols
          /\ cpc' = "describe_local"
          /\ UNCHANGED raised
       \/ /\ StmtFails
          /\ Raise("DatabaseError")
          /\ UNCHANGED remote_cols
    /\ UNCHANGED <<servers, servers_tx, local_cols, common_cols, rows, i,
                   rows_copied, result, log, dest, outcome>>
    /\ CopyFrame

\* fdw_copy.py 16-65, 168-172: the destination columns and their types,
\* through dblink; no row is an error
DescribeRemote ==
    /\ cpc = "describe_remote"
    /\ executed' = Append(executed, Stmt("SELECT pg_attribute", "dblink"))
    /\ \/ /\ StmtOk
          /\ IF remote_table_cols = <<>>
                THEN /\ Raise("ValueError")
                     /\ UNCHANGED remote_cols
                ELSE /\ remote_cols' = remote_table_cols
                     /\ cpc' = "describe_local"
                     /\ UNCHANGED raised
       \/ /\ StmtFails
          /\ Raise("DatabaseError")
          /\ UNCHANGED remote_cols
    /\ UNCHANGED <<servers, servers_tx, local_cols, common_cols, rows, i,
                   rows_copied, result, log, dest, outcome>>
    /\ CopyFrame

\* a source lookup that goes on to the fetch without the reconciliation
DescribeLocalThenFetch ==
    /\ cpc = "describe_local"
    /\ executed' = Append(executed, Stmt("SELECT information_schema.columns", "conn"))
    /\ \/ /\ StmtOk
          /\ local_cols' = local_table_cols
          /\ cpc' = "fetch"
          /\ UNCHANGED raised
       \/ /\ StmtFails
          /\ Raise("DatabaseError")
          /\ UNCHANGED local_cols
    /\ UNCHANGED <<servers, servers_tx, remote_cols, common_cols, rows, i,
                   rows_copied, result, log, dest, outcome>>
    /\ CopyFrame

\* fdw_copy.py 178-190: the source column names from information_schema
DescribeLocal ==
    /\ cpc = "describe_local"
    /\ executed' = Append(executed, Stmt("SELECT information_schema.columns", "conn"))
    /\ \/ /\ StmtOk
          /\ local_cols' = local_table_cols
          /\ cpc' = "reconcile"
          /\ UNCHANGED raised
       \/ /\ StmtFails
          /\ Raise("DatabaseError")
          /\ UNCHANGED local_cols
    /\ UNCHANGED <<servers, servers_tx, remote_cols, common_cols, rows, i,
                   rows_copied, result, log, dest, outcome>>
    /\ CopyFrame

\* a reconciliation that goes on to the fetch without any common column
ReconcileNoCheck ==
    /\ cpc = "reconcile"
    /\ common_cols' = CommonCols(RemoteColNames(remote_cols), local_cols)
    /\ cpc' = "fetch"
    /\ UNCHANGED raised
    /\ UNCHANGED <<dbVars, remote_cols, local_cols, rows, i, rows_copied,
                   result, executed, log, dest, outcome>>
    /\ CopyFrame

\* fdw_copy.py 192-198: the common columns in remote order; none is an error
Reconcile ==
    /\ cpc = "reconcile"
    /\ common_cols' = CommonCols(RemoteColNames(remote_cols), local_cols)
    /\ IF common_cols' = <<>>
          THEN Raise("ValueError")
          ELSE cpc' = "fetch" /\ UNCHANGED raised
    /\ UNCHANGED <<dbVars, remote_cols, local_cols, rows, i, rows_copied,
                   result, executed, log, dest, outcome>>
    /\ CopyFrame

\* a fetch that goes on to the chunk loop whatever it returned
FetchNoEarlyReturn ==
    /\ cpc = "fetch"
    /\ executed' = Append(executed, Stmt("SELECT rows", "conn"))
    /\ \/ /\ StmtOk
          /\ rows' = LocalRows(local_table_rows, row_limit)
          /\ cpc' = "enter_loop"
          /\ UNCHANGED <<log, result, raised>>
       \/ /\ StmtFails
          /\ Raise("DatabaseError")
          /\ UNCHANGED <<rows, log, result>>
    /\ UNCHANGED <<servers, servers_tx, remote_cols, local_cols, common_cols,
                   i, rows_copied, dest, outcome>>
    /\ CopyFrame

\* fdw_copy.py 202-208 (68-88): the source rows of the common columns; for no
\* row the warning is logged and False returned
Fetch ==
    /\ cpc = "fetch"
    /\ executed' = Append(executed, Stmt("SELECT rows", "conn"))
    /\ \/ /\ StmtOk
          /\ rows' = LocalRows(local_table_rows, row_limit)
          /\ IF rows' = <<>>
                THEN /\ log' = Append(log, LogRec("WARNING", "No rows to copy.", 0))
                     /\ result' = "False"
                     /\ cpc' = "done"
                ELSE /\ cpc' = "enter_loop"
                     /\ UNCHANGED <<log, result>>
          /\ UNCHANGED raised
       \/ /\ StmtFails
          /\ Raise("DatabaseError")
          /\ UNCHANGED <<rows, log, result>>
    /\ UNCHANGED <<servers, servers_tx, remote_cols, local_cols, common_cols,
                   i, rows_copied, dest, outcome>>
    /\ CopyFrame

\* fdw_copy.py 231-232: range(0, len(rows), batch_size); a step of zero is
\* an error, a negative step gives no chunk
EnterLoop ==
    /\ cpc = "enter_loop"
    /\ CASE batch_size = 0 -> Raise("ValueError") /\ UNCHANGED i
         [] batch_size < 0 -> cpc' = "final_commit" /\ UNCHANGED <<i, raised>>
         [] batch_size > 0 -> cpc' = "chunk" /\ i' = 0 /\ UNCHANGED raised
    /\ UNCHANGED <<dbVars, remote_cols, local_cols, common_cols, rows,
                   rows_copied, result, histVars>>
    /\ CopyFrame

\* fdw_copy.py 232: the range is exhausted
LoopExit ==
    /\ cpc = "chunk"
    /\ i >= Len(rows)
    /\ cpc' = "final_commit"
    /\ UNCHANGED <<dbVars, localVars, result, raised, histVars>>
    /\ CopyFrame

\* fdw_copy.py 233-247: the statement of the next chunk is built and BEGIN
\* executed on the source connection.  The values of the rows are the
\* subject of SpecInsert: a value that does not encode makes
\* build_insert_values_chunk raise at line 234, before the try of line 244.
ChunkBegin ==
    /\ cpc = "chunk"
    /\ i < Len(rows)
    /\ \/ /\ executed' = Append(executed, Stmt("BEGIN", "conn"))
          /\ \/ /\ StmtOk
                /\ cpc' = "exec"
             \/ /\ CtlFails
                /\ cpc' = "rollback"
          /\ UNCHANGED raised
       \/ /\ Raise("TypeError")
          /\ UNCHANGED <<alive, txn, executed>>
    /\ UNCHANGED <<servers, servers_tx, localVars, result, log, dest, outcome>>
    /\ CopyFrame

\* a failed insert after which the loop goes on without the rollback
ChunkExecNoRollback ==
    /\ cpc = "exec"
    /\ executed' = Append(executed, Stmt("INSERT", "dblink"))
    /\ \/ /\ StmtOk
          /\ dest' = dest \cup Chunk(rows, i, batch_size)
          /\ cpc' = "commit"
          /\ i' = i
       \/ /\ StmtFails
          /\ dest' = dest
          /\ cpc' = "chunk"
          /\ i' = i + batch_size
    /\ UNCHANGED <<servers, servers_tx, remote_cols, local_cols, common_cols,
                   rows, rows_copied, result, raised, log, outcome>>
    /\ CopyFrame

\* fdw_copy.py 248-251: SELECT dblink_exec(server, insert): the insert runs
\* at the destination in a session and a transaction of its own
ChunkExec ==
    /\ cpc = "exec"
    /\ executed' = Append(executed, Stmt("INSERT", "dblink"))
    /\ \/ /\ StmtOk
          /\ dest' = dest \cup Chunk(rows, i, batch_size)
          /\ cpc' = "commit"
       \/ /\ StmtFails
          /\ dest' = dest
          /\ cpc' = "rollback"
    /\ UNCHANGED <<servers, servers_tx, localVars, result, raised, log, outcome>>
    /\ CopyFrame

\* a commit that counts the rows of the chunk before COMMIT is executed
ChunkCommitCountFirst ==
    /\ cpc = "commit"
    /\ executed' = Append(executed, Stmt("COMMIT", "conn"))
    /\ rows_copied' = rows_copied + Cardinality(Chunk(rows, i, batch_size))
    /\ \/ /\ alive
          /\ alive' = TRUE
          /\ txn' = "idle"
          /\ servers' = servers_tx
          /\ log' = IF Len(rows) > batch_size
                       THEN Append(log, LogRec("INFO", "Chunk inserted",
                                               ChunkNo(i, batch_size)))
                       ELSE log
          /\ outcome' = Append(outcome, "Committed")
          /\ i' = i + batch_size
          /\ cpc' = "chunk"
       \/ /\ CtlFails
          /\ cpc' = "rollback"
          /\ UNCHANGED <<servers, log, outcome, i>>
    /\ UNCHANGED <<servers_tx, remote_cols, local_cols, common_cols, rows,
                   result, raised, dest>>
    /\ CopyFrame

\* fdw_copy.py 252-255: COMMIT on the source connection; the chunk is counted
ChunkCommit ==
    /\ cpc = "commit"
    /\ executed' = Append(executed, Stmt("COMMIT", "conn"))
    /\ \/ /\ alive
          /\ alive' = TRUE
          /\ txn' = "idle"
          /\ servers' = servers_tx
          /\ rows_copied' = rows_copied + Cardinality(Chunk(rows, i, batch_size))
          /\ log' = IF Len(rows) > batch_size
                       THEN Append(log, LogRec("INFO", "Chunk inserted",
                                               ChunkNo(i, batch_size)))
                       ELSE log
          /\ outcome' = Append(outcome, "Committed")
          /\ i' = i + batch_size
          /\ cpc' = "chunk"
       \/ /\ CtlFails
          /\ cpc' = "rollback"
          /\ UNCHANGED <<servers, rows_copied, log, outcome, i>>
    /\ UNCHANGED <<servers_tx, remote_cols, local_cols, common_cols, rows,
                   result, raised, dest>>
    /\ CopyFrame

\* fdw_copy.py 256-259: the handler of the chunk: ROLLBACK on the source
\* connection, the error is logged and the loop goes on
ChunkRollback ==
    /\ cpc = "rollback"
    /\ executed' = Append(executed, Stmt("ROLLBACK", "conn"))
    /\ \/ /\ alive
          /\ alive' = TRUE
          /\ txn' = "idle"
          /\ servers_tx' = servers
          /\ log' = Append(log, LogRec("ERROR", "Chunk failed", ChunkNo(i, batch_size)))
          /\ outcome' = Append(outcome, "RolledBack")
          /\ i' = i + batch_size
          /\ cpc' = "chunk"
          /\ UNCHANGED raised
       \/ /\ CtlFails
          /\ Raise("InterfaceError")
          /\ UNCHANGED <<servers_tx, log, outcome, i>>
    /\ UNCHANGED <<servers, remote_cols, local_cols, common_cols, rows,
                   rows_copied, result, dest>>
    /\ CopyFrame

\* a return value that is true as soon as some row was applied
FinalCommitSomeRows ==
    /\ cpc = "final_commit"
    /\ \/ /\ CommitOk
          /\ log' = Append(log, LogRec("INFO", "Copied", rows_copied))
          /\ result' = Bool(rows_copied > 0)
          /\ cpc' = "done"
          /\ UNCHANGED raised
       \/ /\ CommitFails
          /\ Raise("OperationalError")
          /\ UNCHANGED <<log, result>>
    /\ UNCHANGED <<localVars, executed, dest, outcome>>
    /\ CopyFrame

\* fdw_copy.py 262-271: conn.commit(), the summary is logged and the
\* comparison of the counter with the number of rows returned
FinalCommit ==
    /\ cpc = "final_commit"
    /\ \/ /\ CommitOk
          /\ log' = Append(log, LogRec("INFO", "Copied", rows_copied))
          /\ result' = Bool(rows_copied = Len(rows))
          /\ cpc' = "done"
          /\ UNCHANGED raised
       \/ /\ CommitFails
          /\ Raise("OperationalError")
          /\ UNCHANGED <<log, result>>
    /\ UNCHANGED <<localVars, executed, dest, outcome>>
    /\ CopyFrame

CopyNext ==
    \/ CreateExtension
    \/ DropServerObject
    \/ DropCommit
    \/ CreateServerObject
    \/ CreateUserMappingObject
    \/ SelectServer
    \/ RegCommit
    \/ DescribeRemote
    \/ DescribeLocal
    \/ Reconcile
    \/ Fetch
    \/ EnterLoop
    \/ LoopExit
    \/ ChunkBegin
    \/ ChunkExec
    \/ ChunkCommit
    \/ ChunkRollback
    \/ FinalCommit

InitCopy == StartIdle /\ CopyInit /\ FwdIdle /\ RouteIdle /\ InsertIdle /\ RunsIdle

SpecCopy == InitCopy /\ [][CopyNext]_vars

Init == StartInit /\ CopyIdle /\ FwdIdle /\ RouteIdle /\ InsertIdle /\ RunsIdle

Next == StartNext

Spec == Init /\ [][Next]_vars

(***************************************************************************)
(* connection.py 26-89: the accept loop of _forward_tunnel, the handler    *)
(* thread of each accepted client, and the peers of the forwarded          *)
(* connections (the local clients, the far end of each channel).           *)
(***************************************************************************)
FwdUnchanged == UNCHANGED <<startVars, copyVars, routeVars, insertVars, runVars>>

\* the bytes of a stream the handler has not received yet
Pending(s) == [k \in 1..(s.written - s.read) |-> s.read + k]

\* select() reports a side readable when bytes or the end of stream wait
Readable(s) == s.read < s.written \/ s.eof

Ready(c) ==
    {side \in {"client_sock", "chan"} :
        \/ side = "client_sock" /\ Readable(up[c])
        \/ side = "chan" /\ Readable(down[c])}

\* the writes and the shutdown of the peer of a stream
Events(s, counted) == s.written + (IF s.eof /\ counted THEN 1 ELSE 0)

RECURSIVE EventsUpTo(_)
EventsUpTo(n) ==
    IF n = 0
       THEN 0
       ELSE Events(up[n], TRUE) + Events(down[n], transport = "open")
               + EventsUpTo(n - 1)

\* what the peers of all connections have done so far; the end of a channel
\* that comes with the end of the session is not the peer's
PeerEvents == EventsUpTo(MaxConns)

\* connection.py 54-57: socket(), setsockopt(), bind(), listen(100); bind()
\* raises OSError when the address is in use, which ends the thread
Bind ==
    /\ fpc = "bind"
    /\ \/ /\ listener' = "listening"
          /\ fpc' = "accept"
       \/ /\ fpc' = "failed"
          /\ UNCHANGED listener
    /\ UNCHANGED <<transport, cancelled, hpc, client_sock, chan, r, up, down,
                   ended, closes>>
    /\ FwdUnchanged

\* connection.py 57: a local client connects to the listening endpoint and
\* waits in its backlog
ClientConnect(c) ==
    /\ listener = "listening"
    /\ hpc[c] = "unborn"
    /\ \A d \in Conns : d < c => hpc[d] # "unborn"
    /\ hpc' = [hpc EXCEPT ![c] = "queued"]
    /\ UNCHANGED <<fpc, listener, transport, cancelled, client_sock, chan, r,
                   up, down, ended, closes>>
    /\ FwdUnchanged

\* an accept loop that serves the accepted client itself before it accepts
\* the next one
AcceptInline ==
    /\ fpc = "accept"
    /\ \A d \in Conns : hpc[d] \in {"unborn", "queued", "returned", "died"}
    /\ \E c \in Conns :
          /\ hpc[c] = "queued"
          /\ \A d \in Conns : d < c => hpc[d] # "queued"
          /\ hpc' = [hpc EXCEPT ![c] = "open_channel"]
          /\ client_sock' = [client_sock EXCEPT ![c] = "open"]
    /\ UNCHANGED <<fpc, listener, transport, cancelled, chan, r, up, down,
                   ended, closes>>
    /\ FwdUnchanged

\* connection.py 85-89: accept() returns the first waiting client and a
\* daemon thread running handler(client_sock) is started
Accept ==
    /\ fpc = "accept"
    /\ \E c \in Conns :
          /\ hpc[c] = "queued"
          /\ \A d \in Conns : d < c => hpc[d] # "queued"
          /\ hpc' = [hpc EXCEPT ![c] = "open_channel"]
          /\ client_sock' = [client_sock EXCEPT ![c] = "open"]
    /\ UNCHANGED <<fpc, listener, transport, cancelled, chan, r, up, down,
                   ended, closes>>
    /\ FwdUnchanged

\* connection.py 60-67: transport.open_channel("direct-tcpip", ...); without
\* a channel the handler prints and returns; an exception ends the thread
OpenChannel(c) ==
    /\ hpc[c] = "open_channel"
    /\ \/ /\ transport = "open"
          /\ chan' = [chan EXCEPT ![c] = "open"]
          /\ hpc' = [hpc EXCEPT ![c] = "select"]
          /\ UNCHANGED ended
       \/ /\ hpc' = [hpc EXCEPT ![c] = "returned"]
          /\ ended' = [ended EXCEPT ![c] = "no_channel"]
          /\ UNCHANGED chan
       \/ /\ hpc' = [hpc EXCEPT ![c] = "died"]
          /\ ended' = [ended EXCEPT ![c] = "channel_error"]
          /\ UNCHANGED chan
    /\ UNCHANGED <<fpc, listener, transport, cancelled, client_sock, r, up,
                   down, closes>>
    /\ FwdUnchanged

\* connection.py 69-70: select.select([client_sock, chan], [], []) blocks
\* until a side is readable and returns the readable sides
Select(c) ==
    /\ hpc[c] = "select"
    /\ Ready(c) # {}
    /\ r' = [r EXCEPT ![c] = Ready(c)]
    /\ hpc' = [hpc EXCEPT ![c] = "from_client"]
    /\ UNCHANGED <<fpc, listener, transport, cancelled, client_sock, chan, up,
                   down, ended, closes>>
    /\ FwdUnchanged

\* recv(1024) returned data and send(data) is called with it: send() hands
\* on the first n bytes and returns n, which the handler does not look at
Relay(s, data, n) ==
    [s EXCEPT !.read = s.read + Len(data),
              !.got = s.got \o SubSeq(data, 1, n)]

\* connection.py 71-75: the client side of one round of the loop: recv()
\* gives no byte (the loop is left), or the bytes that wait, which send()
\* hands on or, with a peer that does not drain, waits to hand on
\* (send_blocked); either call may raise, which ends the thread
FromClient(c) ==
    /\ hpc[c] = "from_client"
    /\ IF "client_sock" \notin r[c]
          THEN /\ hpc' = [hpc EXCEPT ![c] = "from_chan"]
               /\ UNCHANGED <<up, ended>>
          ELSE LET data == Pending(up[c]) IN
               \/ /\ data = <<>>
                  /\ hpc' = [hpc EXCEPT ![c] = "close"]
                  /\ ended' = [ended EXCEPT ![c] = "client_eof"]
                  /\ UNCHANGED up
               \/ /\ data # <<>>
                  /\ \E n \in 1..Len(data) : up' = [up EXCEPT ![c] = Relay(@, data, n)]
                  /\ hpc' = [hpc EXCEPT ![c] = "from_chan"]
                  /\ UNCHANGED ended
               \/ /\ data # <<>>
                  /\ hpc' = [hpc EXCEPT ![c] = "send_blocked"]
                  /\ UNCHANGED <<up, ended>>
               \/ /\ hpc' = [hpc EXCEPT ![c] = "died"]
                  /\ ended' = [ended EXCEPT ![c] = "error"]
                  /\ UNCHANGED up
    /\ UNCHANGED <<fpc, listener, transport, cancelled, client_sock, chan, r,
                   down, closes>>
    /\ FwdUnchanged

\* connection.py 76-80: the channel side of one round of the loop
FromChan(c) ==
    /\ hpc[c] = "from_chan"
    /\ IF "chan" \notin r[c]
          THEN /\ hpc' = [hpc EXCEPT ![c] = "select"]
               /\ UNCHANGED <<down, ended>>
          ELSE LET data == Pending(down[c]) IN
               \/ /\ data = <<>>
                  /\ hpc' = [hpc EXCEPT ![c] = "close"]
                  /\ ended' = [ended EXCEPT ![c] = "chan_eof"]
                  /\ UNCHANGED down
               \/ /\ data # <<>>
                  /\ \E n \in 1..Len(data) : down' = [down EXCEPT ![c] = Relay(@, data, n)]
                  /\ hpc' = [hpc EXCEPT ![c] = "select"]
                  /\ UNCHANGED ended
               \/ /\ data # <<>>
                  /\ hpc' = [hpc EXCEPT ![c] = "send_blocked"]
                  /\ UNCHANGED <<down, ended>>
               \/ /\ hpc' = [hpc EXCEPT ![c] = "died"]
                  /\ ended' = [ended EXCEPT ![c] = "error"]
                  /\ UNCHANGED down
    /\ r' = [r EXCEPT ![c] = IF hpc'[c] = "select" THEN {} ELSE @]
    /\ UNCHANGED <<fpc, listener, transport, cancelled, client_sock, chan, up,
                   closes>>
    /\ FwdUnchanged

\* a teardown that closes the channel only
CloseChanOnly(c) ==
    /\ hpc[c] = "close"
    /\ chan' = [chan EXCEPT ![c] = "closed"]
    /\ closes' = [closes EXCEPT ![c] = @ \o <<"chan">>]
    /\ hpc' = [hpc EXCEPT ![c] = "returned"]
    /\ UNCHANGED <<fpc, listener, transport, cancelled, client_sock, r, up,
                   down, ended>>
    /\ FwdUnchanged

\* connection.py 82-83: after the loop chan.close() and client_sock.close()
CloseBoth(c) ==
    /\ hpc[c] = "close"
    /\ chan' = [chan EXCEPT ![c] = "closed"]
    /\ client_sock' = [client_sock EXCEPT ![c] = "closed"]
    /\ closes' = [closes EXCEPT ![c] = @ \o <<"chan", "client_sock">>]
    /\ hpc' = [hpc EXCEPT ![c] = "returned"]
    /\ UNCHANGED <<fpc, listener, transport, cancelled, r, up, down, ended>>
    /\ FwdUnchanged

\* connection.py 72: the client of a forwarded connection writes a byte
ClientWrite(c) ==
    /\ hpc[c] # "unborn"
    /\ client_sock[c] # "closed"
    /\ ~up[c].eof
    /\ PeerEvents < MaxEvents
    /\ up' = [up EXCEPT ![c].written = @ + 1]
    /\ UNCHANGED <<fpc, listener, transport, cancelled, hpc, client_sock, chan,
                   r, down, ended, closes>>
    /\ FwdUnchanged

\* connection.py 72-73: the client shuts its sending side down
ClientShutdown(c) ==
    /\ hpc[c] # "unborn"
    /\ ~up[c].eof
    /\ PeerEvents < MaxEvents
    /\ up' = [up EXCEPT ![c].eof = TRUE]
    /\ UNCHANGED <<fpc, listener, transport, cancelled, hpc, client_sock, chan,
                   r, down, ended, closes>>
    /\ FwdUnchanged

\* connection.py 77: the far end of the channel writes a byte
RemoteWrite(c) ==
    /\ chan[c] = "open"
    /\ ~down[c].eof
    /\ PeerEvents < MaxEvents
    /\ down' = [down EXCEPT ![c].written = @ + 1]
    /\ UNCHANGED <<fpc, listener, transport, cancelled, hpc, client_sock, chan,
                   r, up, ended, closes>>
    /\ FwdUnchanged

\* connection.py 77-78: the far end of the channel closes it
RemoteShutdown(c) ==
    /\ chan[c] = "open"
    /\ ~down[c].eof
    /\ PeerEvents < MaxEvents
    /\ down' = [down EXCEPT ![c].eof = TRUE]
    /\ UNCHANGED <<fpc, listener, transport, cancelled, hpc, client_sock, chan,
                   r, up, ended, closes>>
    /\ FwdUnchanged

\* main.py 37-39: the run ends: conn.close() and ssh_client.close(), which
\* closes the transport and with it every channel; nothing is said to the
\* _forward_tunnel thread
CloseSession ==
    /\ fpc # "idle"
    /\ ~cancelled
    /\ cancelled' = TRUE
    /\ transport' = "closed"
    /\ chan' = [c \in Conns |-> IF chan[c] = "open" THEN "closed" ELSE chan[c]]
    /\ down' = [c \in Conns |->
                   IF chan[c] = "open" THEN [down[c] EXCEPT !.eof = TRUE] ELSE down[c]]
    /\ UNCHANGED <<fpc, listener, hpc, client_sock, r, up, ended, closes>>
    /\ FwdUnchanged

FwdNext ==
    \/ Bind
    \/ Accept
    \/ CloseSession
    \/ \E c \in Conns : ClientConnect(c)
    \/ \E c \in Conns : OpenChannel(c)
    \/ \E c \in Conns : Select(c)
    \/ \E c \in Conns : FromClient(c)
    \/ \E c \in Conns : FromChan(c)
    \/ \E c \in Conns : CloseBoth(c)
    \/ \E c \in Conns : ClientWrite(c)
    \/ \E c \in Conns : ClientShutdown(c)
    \/ \E c \in Conns : RemoteWrite(c)
    \/ \E c \in Conns : RemoteShutdown(c)

InitFwd == StartIdle /\ CopyIdle /\ FwdInit /\ RouteIdle /\ InsertIdle /\ RunsIdle

SpecFwd == InitFwd /\ [][FwdNext]_vars

(***************************************************************************)
(* routing.py 43-96: process_all_routes.  The routing argument is a dict   *)
(* keyed by host, modelled as the sequence of its entries in dict order;   *)
(* host k carries the tables 1..n.  An entry may omit "port" and "schema"; *)
(* its port may be an int or, as the type of the argument allows, a str.   *)
(***************************************************************************)
IntPort(text) == [kind |-> "int", text |-> text]

StrPort(text) == [kind |-> "str", text |-> text]

NoPort == [kind |-> "absent", text |-> ""]

PortEntries == {NoPort, IntPort("5555"), StrPort("5555")}

\* the optional "schema": <<>> when the entry omits it
SchemaEntries == {<<>>, <<"custom_schema">>}

DbName(k) == IF k % 2 = 1 THEN "db_1" ELSE "db-2"

RouteEntries(k) ==
    {[host |-> k, db |-> DbName(k), password |-> "pw", tables |-> [t \in 1..n |-> t],
      port |-> p, schema |-> sc] :
        n \in 0..MaxTables, p \in PortEntries, sc \in SchemaEntries}

RoutingTables ==
    UNION {{rt \in [1..n -> UNION {RouteEntries(k) : k \in 1..n}] :
               \A k \in 1..n : rt[k].host = k} : n \in 0..MaxHosts}

\* routing.py 61: cfg.get("port", 5432)
PortOf(cfg) == IF cfg.port = NoPort THEN IntPort("5432") ELSE cfg.port

\* a lookup of the schema without the default
SchemaOfNoDefault(cfg) == IF cfg.schema = <<>> THEN None ELSE cfg.schema[1]

\* routing.py 62, 81: _force_str(cfg.get("schema", "public"))
SchemaOf(cfg) == IF cfg.schema = <<>> THEN "public" ELSE cfg.schema[1]

\* routing.py 37-40: _ensure_int returns an int and raises TypeError for
\* anything else
EnsureIntOk(v) == v.kind = "int"

\* routing.py 64: f"{remote_server_prefix}{dbname}".replace("-", "_")
RemoteServerName(db) ==
    CASE db = "db_1" -> "pygrate_db_1"
      [] db = "db-2" -> "pygrate_db_2"

\* routing.py 77-88: the keyword arguments of the copy call
CopyArgs(cfg, table, local_schema) ==
    [local_schema |-> local_schema,
     local_table |-> table,
     remote_schema |-> SchemaOf(cfg),
     remote_table |-> table,
     remote_host |-> cfg.host,
     remote_port |-> PortOf(cfg).text,
     remote_password |-> cfg.password,
     remote_db |-> cfg.db,
     remote_server |-> RemoteServerName(cfg.db)]

\* the exception a table copy ends with (fdw_copy.py 61, 194: no destination
\* table, no common column); every other Exception takes the same path
CopyErrors == {"ValueError"}

\* a copy call: its arguments and how it ended (returned, or the exception)
Call(args, how) == [args |-> args, ended |-> how]

RouteRec(kind, cfg, table, cls) ==
    [kind |-> kind, host |-> cfg.host, table |-> table, cls |-> cls]

RouteInit ==
    /\ rpc = "host"
    /\ routes \in RoutingTables
    /\ host_ix = 1
    /\ table_ix = 1
    /\ invoked = <<>>
    /\ route_log = <<>>
    /\ escaped = None

RouteUnchanged == UNCHANGED <<startVars, copyVars, fwdVars, insertVars, runVars>>

\* routing.py 57-68: the next destination of routing.items(), or the end
NextHost ==
    /\ rpc = "host"
    /\ IF host_ix > Len(routes)
          THEN rpc' = "done"
          ELSE rpc' = "table"
    /\ table_ix' = 1
    /\ UNCHANGED <<routes, host_ix, invoked, route_log, escaped>>
    /\ RouteUnchanged

\* routing.py 70: the tables of the destination are exhausted
NextTable ==
    /\ rpc = "table"
    /\ table_ix > Len(routes[host_ix].tables)
    /\ host_ix' = host_ix + 1
    /\ rpc' = "host"
    /\ UNCHANGED <<routes, table_ix, invoked, route_log, escaped>>
    /\ RouteUnchanged

\* a dispatch that lets the exception of a table copy leave the call
CopyOneNoCatch ==
    /\ rpc = "table"
    /\ table_ix <= Len(routes[host_ix].tables)
    /\ LET cfg == routes[host_ix]
           table == cfg.tables[table_ix]
       IN  IF ~EnsureIntOk(PortOf(cfg))
              THEN /\ escaped' = "TypeError"
                   /\ rpc' = "raised"
                   /\ UNCHANGED <<invoked, route_log>>
              ELSE LET args == CopyArgs(cfg, table, "pipeline") IN
                   \/ /\ invoked' = Append(invoked, Call(args, "returned"))
                      /\ route_log' = Append(route_log, RouteRec("Done", cfg, table, None))
                      /\ UNCHANGED <<escaped, rpc>>
                   \/ \E e \in CopyErrors :
                         /\ invoked' = Append(invoked, Call(args, e))
                         /\ escaped' = e
                         /\ rpc' = "raised"
                         /\ UNCHANGED route_log
    /\ table_ix' = table_ix + 1
    /\ UNCHANGED <<routes, host_ix>>
    /\ RouteUnchanged

\* routing.py 70-96: one table of the destination: the arguments are
\* evaluated inside the try (81-87), the copy is called, and its return or
\* its exception is logged
CopyOne ==
    /\ rpc = "table"
    /\ table_ix <= Len(routes[host_ix].tables)
    /\ LET cfg == routes[host_ix]
           table == cfg.tables[table_ix]
       IN  IF ~EnsureIntOk(PortOf(cfg))
              THEN /\ route_log' = Append(route_log, RouteRec("Error", cfg, table, "TypeError"))
                   /\ UNCHANGED invoked
              ELSE LET args == CopyArgs(cfg, table, "pipeline") IN
                   \/ /\ invoked' = Append(invoked, Call(args, "returned"))
                      /\ route_log' = Append(route_log, RouteRec("Done", cfg, table, None))
                   \/ \E e \in CopyErrors :
                         /\ invoked' = Append(invoked, Call(args, e))
                         /\ route_log' = Append(route_log, RouteRec("Error", cfg, table, e))
    /\ table_ix' = table_ix + 1
    /\ UNCHANGED <<rpc, routes, host_ix, escaped>>
    /\ RouteUnchanged

RouteNext ==
    \/ NextHost
    \/ NextTable
    \/ CopyOne

InitRoute == StartIdle /\ CopyIdle /\ FwdIdle /\ RouteInit /\ InsertIdle /\ RunsIdle

SpecRoute == InitRoute /\ [][RouteNext]_vars

(***************************************************************************)
(* main.py 8-39, connection.py 54-57, 85-89, 165-184: successive runs of   *)
(* start() in one process, as successive lambda_handler invocations are.   *)
(* A run is followed from the start of its forwarder thread, with its SSH  *)
(* session connected and verified.  The threads are daemon threads of the  *)
(* process: those of earlier runs go on running beside the current run.    *)
(* The socket of _forward_tunnel sets SO_REUSEADDR, under which bind()     *)
(* still raises EADDRINUSE while another socket listens at the address.    *)
(***************************************************************************)
Runs == 1..MaxRuns

RunsUnchanged == UNCHANGED <<startVars, copyVars, fwdVars, routeVars, insertVars>>

\* lambda_function.py 7-10, main.py 8-28: a run of start() begins; its SSH
\* client is connected
RunsInit ==
    /\ run = 1
    /\ mpc = "start_thread"
    /\ session = [k \in Runs |-> IF k = 1 THEN "open" ELSE "none"]
    /\ tpc = [k \in Runs |-> "unborn"]
    /\ holder = 0
    /\ reached = [k \in Runs |-> 0 - 1]
    /\ via = [k \in Runs |-> 0]
    /\ db_conn = [k \in Runs |-> "none"]

\* connection.py 167-173: Thread(target=_forward_tunnel, daemon=True).start()
\* returns when the thread has begun to run, not when it has bound
StartThread ==
    /\ mpc = "start_thread"
    /\ tpc' = [tpc EXCEPT ![run] = "bind"]
    /\ mpc' = "pg_connect"
    /\ UNCHANGED <<run, session, holder, reached, via, db_conn>>
    /\ RunsUnchanged

\* connection.py 54-57: the thread of run k binds and listens; bind() raises
\* OSError while the socket of another thread listens at the address, and
\* the exception ends the thread
ThreadBind(k) ==
    /\ tpc[k] = "bind"
    /\ IF holder = 0
          THEN tpc' = [tpc EXCEPT ![k] = "accept"] /\ holder' = k
          ELSE tpc' = [tpc EXCEPT ![k] = "failed"] /\ holder' = holder
    /\ UNCHANGED <<run, mpc, session, reached, via, db_conn>>
    /\ RunsUnchanged

\* connection.py 175-182: psycopg2.connect(host=local_host, port=local_port)
\* connects to whatever listens at the address now; with no listener the
\* connection is refused and OperationalError leaves create_pg_connection
DbConnect ==
    /\ mpc = "pg_connect"
    /\ reached' = [reached EXCEPT ![run] = holder]
    /\ mpc' = IF holder = 0 THEN "raised" ELSE "handshake"
    /\ UNCHANGED <<run, session, tpc, holder, via, db_conn>>
    /\ RunsUnchanged

\* connection.py 85-89: the accept loop of the listening thread takes the
\* connection and starts its handler, whose transport is that of the run of
\* the thread
TunnelAccept(k) ==
    /\ mpc = "handshake"
    /\ reached[run] = k
    /\ tpc[k] = "accept"
    /\ via' = [via EXCEPT ![run] = k]
    /\ mpc' = "open_channel"
    /\ UNCHANGED <<run, session, tpc, holder, reached, db_conn>>
    /\ RunsUnchanged

\* connection.py 59-67, 175-184: the handler opens the channel; on a closed
\* transport open_channel raises, the handler thread ends and the connection
\* attempt fails, as the server may make it fail over an open channel
HandlerOpenChannel ==
    /\ mpc = "open_channel"
    /\ \/ /\ session[via[run]] = "open"
          /\ db_conn' = [db_conn EXCEPT ![run] = "open"]
          /\ mpc' = "routes"
       \/ /\ mpc' = "raised"
          /\ UNCHANGED db_conn
    /\ UNCHANGED <<run, session, tpc, holder, reached, via>>
    /\ RunsUnchanged

\* main.py 30-35: build_routing() and process_all_routes(); an exception of
\* build_routing leaves start()
CopyRoutes ==
    /\ mpc = "routes"
    /\ mpc' \in {"close_conn", "raised"}
    /\ UNCHANGED <<run, session, tpc, holder, reached, via, db_conn>>
    /\ RunsUnchanged

\* main.py 38: conn.close()
RunCloseConn ==
    /\ mpc = "close_conn"
    /\ db_conn' = [db_conn EXCEPT ![run] = "closed"]
    /\ mpc' = "close_ssh"
    /\ UNCHANGED <<run, session, tpc, holder, reached, via>>
    /\ RunsUnchanged

\* main.py 39: ssh_client.close(); start() returns.  Nothing is said to the
\* forwarder thread and its socket is not closed.
RunCloseSsh ==
    /\ mpc = "close_ssh"
    /\ session' = [session EXCEPT ![run] = "closed"]
    /\ mpc' = "returned"
    /\ UNCHANGED <<run, tpc, holder, reached, via, db_conn>>
    /\ RunsUnchanged

\* lambda_function.py 7-10: the next invocation runs start() again in the
\* same process; create_pg_connection connects a new SSH client
NextRun ==
    /\ mpc \in {"returned", "raised"}
    /\ run < MaxRuns
    /\ run' = run + 1
    /\ session' = [session EXCEPT ![run + 1] = "open"]
    /\ mpc' = "start_thread"
    /\ UNCHANGED <<tpc, holder, reached, via, db_conn>>
    /\ RunsUnchanged

RunsNext ==
    \/ StartThread
    \/ DbConnect
    \/ HandlerOpenChannel
    \/ CopyRoutes
    \/ RunCloseConn
    \/ RunCloseSsh
    \/ NextRun
    \/ \E k \in Runs : ThreadBind(k)
    \/ \E k \in Runs : TunnelAccept(k)

InitRuns == StartIdle /\ CopyIdle /\ FwdIdle /\ RouteIdle /\ InsertIdle /\ RunsInit

SpecRuns == InitRuns /\ [][RunsNext]_vars

(***************************************************************************)
(* fdw_copy.py 91-123: _literal.  A text is the sequence of its            *)
(* characters.  A value is what the driver hands over for a cell: None, a  *)
(* str, an int, a date, bytes, a list or a dict; items holds the elements  *)
(* of a list and the (key, value) pairs of a dict.                         *)
(***************************************************************************)
Q == "'"

DQ == "\""

BS == "\\"

NoneV == [kind |-> "none", text |-> <<>>, items |-> <<>>, codec |-> None]

StrV(t) == [kind |-> "str", text |-> t, items |-> <<>>, codec |-> None]

IntV(t) == [kind |-> "int", text |-> t, items |-> <<>>, codec |-> None]

DateV(t) == [kind |-> "date", text |-> t, items |-> <<>>, codec |-> None]

\* the bytes that encode the text t in the given codec
BytesV(t, codec) == [kind |-> "bytes", text |-> t, items |-> <<>>, codec |-> codec]

ListV(xs) == [kind |-> "list", text |-> <<>>, items |-> xs, codec |-> None]

DictV(kvs) == [kind |-> "dict", text |-> <<>>, items |-> kvs, codec |-> None]

\* what a function returns (exc = None) or the exception it raises
Ok(t) == [exc |-> None, text |-> t]

Raises(e) == [exc |-> e, text |-> <<>>]

RECURSIVE Flatten(_)
Flatten(ss) == IF ss = <<>> THEN <<>> ELSE Head(ss) \o Flatten(Tail(ss))

\* sep.join(parts)
RECURSIVE Join(_, _)
Join(parts, sep) ==
    IF parts = <<>> THEN <<>>
    ELSE IF Len(parts) = 1 THEN parts[1]
    ELSE parts[1] \o sep \o Join(Tail(parts), sep)

\* s.replace(c, by)
Replace(s, c, by) ==
    Flatten([k \in DOMAIN s |-> IF s[k] = c THEN by ELSE <<s[k]>>])

NULL == <<"N", "U", "L", "L">>

\* the characters outside ASCII, by their code points: the first (e with
\* acute) is in latin-1, the second (s with cedilla) is not
NonAscii == {"U+00E9", "U+015F"}

IsAscii(t) == \A k \in DOMAIN t : t[k] \notin NonAscii

\* "[]" in rtype
HasBrackets(rtype) == rtype \in {"text[]", "integer[]"}

\* rtype.lower()
Lower(rtype) == IF rtype = "JSONB" THEN "jsonb" ELSE rtype

\* str(x) of an element of a list
Str(x) == x.text

\* fdw_copy.py 102: the embedded double quote gets a backslash, the single
\* quote is doubled; nothing else of the element is changed
EscapeItem(x) == Replace(Replace(Str(x), DQ, <<BS, DQ>>), Q, <<Q, Q>>)

\* fdw_copy.py 96-104: the array literal of a list
ArrayLiteral(items) ==
    <<Q, "{">>
        \o Join([k \in DOMAIN items |->
                    IF items[k].kind = "none" THEN NULL ELSE EscapeItem(items[k])],
                <<",">>)
        \o <<"}", Q>>

\* json.dumps of a scalar
JsonScalar(x) ==
    CASE x.kind = "none" -> <<"n", "u", "l", "l">>
      [] x.kind = "int" -> x.text
      [] OTHER -> <<DQ>> \o Replace(Replace(x.text, BS, <<BS, BS>>), DQ, <<BS, DQ>>)
                    \o <<DQ>>

\* the values json.dumps finds inside v
JsonParts(v) ==
    CASE v.kind = "list" -> {v.items[k] : k \in DOMAIN v.items}
      [] v.kind = "dict" -> {v.items[k][2] : k \in DOMAIN v.items}
      [] OTHER -> {v}

\* fdw_copy.py 109: json.dumps(v, ensure_ascii=False); a date, like bytes, is
\* not JSON serializable
JsonDumps(v) ==
    IF \E x \in JsonParts(v) : x.kind \in {"date", "bytes"}
       THEN Raises("TypeError")
       ELSE CASE v.kind = "list" ->
                    Ok(<<"[">> \o Join([k \in DOMAIN v.items |-> JsonScalar(v.items[k])],
                                       <<",", " ">>) \o <<"]">>)
              [] v.kind = "dict" ->
                    Ok(<<"{">> \o Join([k \in DOMAIN v.items |->
                                          JsonScalar(StrV(v.items[k][1])) \o <<":", " ">>
                                              \o JsonScalar(v.items[k][2])],
                                       <<",", " ">>) \o <<"}">>)
              [] OTHER -> Ok(JsonScalar(v))

\* fdw_copy.py 111: the codecs tried, in order
Codecs == <<"utf-8", "latin-1", "windows-1254", "iso-8859-9">>

\* the character a byte written in windows-1254 is in latin-1
Latin1View(c) == IF c = "U+015F" THEN "U+00FE" ELSE c

\* fdw_copy.py 115: v.decode(enc); every byte sequence is latin-1
Decode(v, enc) ==
    CASE enc = v.codec \/ IsAscii(v.text) -> Ok(v.text)
      [] enc = "latin-1" -> Ok([k \in DOMAIN v.text |-> Latin1View(v.text[k])])
      [] OTHER -> Raises("UnicodeDecodeError")

\* fdw_copy.py 111-118: the first codec that decodes the bytes
RECURSIVE DecodeFrom(_, _)
DecodeFrom(v, n) ==
    IF n > Len(Codecs) THEN v
    ELSE IF Decode(v, Codecs[n]).exc = None THEN StrV(Decode(v, Codecs[n]).text)
    ELSE DecodeFrom(v, n + 1)

\* wrap in single quotes with the embedded single quotes doubled
NaiveQuote(t) == <<Q>> \o Replace(t, Q, <<Q, Q>>) \o <<Q>>

\* fdw_copy.py 121: adapt(v).getquoted().decode("utf-8").  The adapter of a
\* str has no connection: it encodes in latin-1, so a character outside
\* latin-1 does not encode and one outside ASCII does not decode as utf-8.
AdaptQuoted(v) ==
    CASE v.kind = "str" ->
            IF IsAscii(v.text) THEN Ok(NaiveQuote(v.text))
                               ELSE Raises("UnicodeError")
      [] v.kind = "int" -> Ok(v.text)
      [] v.kind = "date" -> Ok(<<Q>> \o v.text \o <<Q, "::", "date">>)
      [] OTHER -> Raises("ProgrammingError")

\* a fallback that wraps the text in single quotes as it is
FallbackPlain(v) ==
    IF v.kind = "str" THEN Ok(<<Q>> \o v.text \o <<Q>>) ELSE Raises("AttributeError")

\* fdw_copy.py 123: v.replace exists for a str only
Fallback(v) ==
    IF v.kind = "str" THEN Ok(NaiveQuote(v.text)) ELSE Raises("AttributeError")

\* fdw_copy.py 120-123
Quote(v) == IF AdaptQuoted(v).exc = None THEN AdaptQuoted(v) ELSE Fallback(v)

\* fdw_copy.py 106-109: what goes through json.dumps
IsJson(v, rtype) ==
    \/ v.kind \in {"dict", "list"}
    \/ (rtype # None /\ Lower(rtype) \in {"json", "jsonb"})

\* an encoder that tries the JSON rule before the array rule
LiteralJsonFirst(v, rtype) ==
    IF v.kind = "none" THEN Ok(NULL)
    ELSE IF IsJson(v, rtype)
       THEN IF JsonDumps(v).exc # None
               THEN JsonDumps(v)
               ELSE Quote(StrV(JsonDumps(v).text))
    ELSE IF v.kind = "bytes" THEN Quote(DecodeFrom(v, 1))
    ELSE Quote(v)

\* fdw_copy.py 91-123
Literal(v, rtype) ==
    IF v.kind = "none" THEN Ok(NULL)
    ELSE IF v.kind = "list" /\ rtype # None /\ HasBrackets(rtype)
       THEN Ok(ArrayLiteral(v.items))
    ELSE IF IsJson(v, rtype)
       THEN IF JsonDumps(v).exc # None
               THEN JsonDumps(v)
               ELSE Quote(StrV(JsonDumps(v).text))
    ELSE IF v.kind = "bytes" THEN Quote(DecodeFrom(v, 1))
    ELSE Quote(v)

(***************************************************************************)
(* fdw_copy.py 198-243: the insert statement of a chunk, built from the    *)
(* fetched values.  The tables of this specification have the columns id,  *)
(* name, tags and doc; the source table holds rows out of SampleRows.      *)
(***************************************************************************)
InsertColumns == {"id", "name", "tags", "doc"}

InsertTypeText(c) ==
    CASE c = "id" -> "integer"
      [] c = "name" -> "text"
      [] c = "tags" -> "text[]"
      [] OTHER -> "jsonb"

\* destination catalogs: duplicate-free lists of (name, type) pairs
InsertCatalogs ==
    {[k \in DOMAIN s |-> <<s[k], InsertTypeText(s[k])>>] :
        s \in {t \in UNION {[1..k -> InsertColumns] : k \in 1..MaxCols} :
                  \A a, b \in DOMAIN t : a # b => t[a] # t[b]}}

\* the columns of the source table
LocalColumnSets == {InsertColumns, InsertColumns \ {"id"}}

SampleRows ==
    << [id |-> IntV(<<"1">>),
        name |-> StrV(<<"O", Q, "R">>),
        tags |-> ListV(<<StrV(<<"a">>), StrV(<<"b">>)>>),
        doc |-> DictV(<< <<(<<"a">>), IntV(<<"1">>)>> >>)],
       [id |-> ListV(<<IntV(<<"2">>)>>),
        name |-> StrV(NULL),
        tags |-> ListV(<<StrV(<<"a", ",", "b">>)>>),
        doc |-> StrV(<<"x">>)],
       [id |-> NoneV,
        name |-> NoneV,
        tags |-> NoneV,
        doc |-> NoneV],
       [id |-> BytesV(<<"U+00E9">>, "latin-1"),
        name |-> StrV(<<"O", Q, "U+00E9">>),
        tags |-> ListV(<<StrV(<<"x", DQ, "y">>), NoneV, StrV(NULL)>>),
        doc |-> DateV(<<"2", "0", "2", "5">>)] >>

\* the contents of a source table with the columns cols
SourceTables(cols) ==
    {[k \in DOMAIN s |-> [c \in cols |-> SampleRows[s[k]][c]]] :
        s \in UNION {[1..n -> DOMAIN SampleRows] : n \in 0..MaxRows}}

\* fdw_copy.py 78-88: SELECT {cols} FROM the source table: each row is the
\* tuple of its values in the order of col_names
GetLocalRows(table, col_names) ==
    [k \in DOMAIN table |-> [j \in DOMAIN col_names |-> table[k][col_names[j]]]]

\* fdw_copy.py 217: zip(common_cols, r)
Zip(cols, row) == 1..Min(Len(cols), Len(row))

\* a cell without the cast
NoCast(lit, rtype) == lit

\* fdw_copy.py 222-225: the literal with the cast to the declared type
Cast(lit, rtype) ==
    IF lit = NULL THEN NULL \o <<"::", rtype>> ELSE lit \o <<"::", rtype>>

\* the declared type taken at the position of the column list
TypeAt(cols, types, remote, j) == remote[j][2]

\* fdw_copy.py 218: rtype = remote_type_texts[col_name]
TypeOf(cols, types, remote, j) == types[cols[j]]

\* fdw_copy.py 215-226: the cells of the rows of a chunk, encoded
Cells(rs, cols, remote) ==
    [k \in DOMAIN rs |->
        [j \in Zip(cols, rs[k]) |->
            Literal(rs[k][j], TypeOf(cols, RemoteTypeTexts(remote), remote, j))]]

\* fdw_copy.py 213-228: build_insert_values_chunk: the value tuples of a
\* chunk, or the exception of the first cell that does not encode
BuildInsertValuesChunk(rs, cols, remote) ==
    LET cells == Cells(rs, cols, remote)
        bad == {<<k, j>> \in (DOMAIN rs) \X (DOMAIN cols) :
                   j \in DOMAIN cells[k] /\ cells[k][j].exc # None}
        first == CHOOSE p \in bad :
                    \A q \in bad : p[1] < q[1] \/ (p[1] = q[1] /\ p[2] <= q[2])
    IN  IF bad # {}
           THEN [exc |-> cells[first[1]][first[2]].exc, rows |-> <<>>]
           ELSE [exc |-> None,
                 rows |-> [k \in DOMAIN rs |->
                            [j \in DOMAIN cells[k] |->
                                Cast(cells[k][j].text,
                                     TypeOf(cols, RemoteTypeTexts(remote), remote, j))]]]

\* fdw_copy.py 198, 235-243: INSERT INTO schema.table (columns) VALUES values
InsertStmt(cols, value_rows) == [columns |-> cols, values |-> value_rows]

InsertInit ==
    /\ cpc = "get_local_rows"
    /\ remote_server = "pygrate_db"
    /\ remote_opts = [host |-> "hostA", port |-> "5432", dbname |-> "db_1"]
    /\ remote_cred = [user |-> "postgres", password |-> "pw1"]
    /\ batch_size \in 1..MaxBatch
    /\ row_limit = <<>>
    /\ remote_table_cols \in InsertCatalogs
    /\ local_table_cols \in LocalColumnSets
    /\ source_rows \in SourceTables(local_table_cols)
    /\ local_table_rows = Len(source_rows)
    /\ alive = TRUE
    /\ txn = "idle"
    /\ servers = NoServers
    /\ servers_tx = NoServers
    /\ remote_cols = remote_table_cols
    /\ local_cols = local_table_cols
    /\ common_cols = CommonCols(RemoteColNames(remote_cols), local_cols)
    /\ common_cols # <<>>
    /\ rows = <<>>
    /\ i = 0
    /\ rows_copied = 0
    /\ result = None
    /\ raised = None
    /\ executed = <<>>
    /\ log = <<>>
    /\ dest = {}
    /\ outcome = <<>>
    /\ calls = 1
    /\ chunk = <<>>
    /\ insert_stmt = Absent

\* what no step of the chunk loop changes here
InsertFrame ==
    /\ UNCHANGED <<argVars, envVars, dbVars, remote_cols, local_cols,
                   common_cols, executed, log, dest, calls, source_rows>>
    /\ UNCHANGED <<startVars, fwdVars, routeVars, runVars>>

\* fdw_copy.py 202-208, 231: the rows of the common columns are fetched; for
\* no row False is returned
FetchValues ==
    /\ cpc = "get_local_rows"
    /\ rows' = GetLocalRows(source_rows, common_cols)
    /\ IF rows' = <<>>
          THEN result' = "False" /\ cpc' = "done"
          ELSE result' = result /\ cpc' = "build"
    /\ UNCHANGED <<i, rows_copied, raised, outcome, chunk, insert_stmt>>
    /\ InsertFrame

\* fdw_copy.py 232-243: the next chunk and its statement; an exception of
\* build_insert_values_chunk leaves the call, the try begins at line 244
BuildInsert ==
    /\ cpc = "build"
    /\ i < Len(rows)
    /\ chunk' = SubSeq(rows, i + 1, Min(i + batch_size, Len(rows)))
    /\ LET built == BuildInsertValuesChunk(chunk', common_cols, remote_cols)
       IN  IF built.exc # None
              THEN /\ Raise(built.exc)
                   /\ UNCHANGED insert_stmt
              ELSE /\ insert_stmt' = InsertStmt(common_cols, built.rows)
                   /\ cpc' = "apply"
                   /\ UNCHANGED raised
    /\ UNCHANGED <<rows, i, rows_copied, result, outcome>>
    /\ InsertFrame

\* fdw_copy.py 244-259, 232: the statement goes to the transaction of the
\* chunk, which is the subject of SpecCopy; committed or rolled back, the
\* loop goes on with the next chunk
ApplyInsert ==
    /\ cpc = "apply"
    /\ i' = i + batch_size
    /\ cpc' = "build"
    /\ UNCHANGED <<rows, rows_copied, result, raised, outcome, chunk, insert_stmt>>
    /\ InsertFrame

\* fdw_copy.py 232: the range is exhausted, no further statement is built
EndInsert ==
    /\ cpc = "build"
    /\ i >= Len(rows)
    /\ cpc' = "final_commit"
    /\ UNCHANGED <<rows, i, rows_copied, result, raised, outcome, chunk,
                   insert_stmt>>
    /\ InsertFrame

InsertNext ==
    \/ FetchValues
    \/ BuildInsert
    \/ ApplyInsert
    \/ EndInsert

InitInsert == StartIdle /\ InsertInit /\ FwdIdle /\ RouteIdle /\ RunsIdle

SpecInsert == InitInsert /\ [][InsertNext]_vars

(***************************************************************************)
(* Properties of start() and create_pg_connection(), under Spec.           *)
(***************************************************************************)
\* create_pg_connection() was entered and is past its SSH part
ConnectSettled ==
    /\ client # "none"
    /\ spc \notin {"get_secret", "load_key", "ssh_connect", "check_fingerprint",
                   "start_forwarder"}

\* C1: whenever the fingerprint of the bastion's host key differs from
\* expected_fingerprint, no forwarder is started and no database connection
\* opened, and once the comparison has been made the call has ended with
\* ValueError and the SSH client closed.
C1_FingerprintFailClosed ==
    /\ ComputeFingerprint(server_key) # expected_fingerprint
          => forwarder = "none" /\ conn = "none" /\ ~verified
    /\ (fingerprint # Absent /\ fingerprint # expected_fingerprint)
          => /\ spc = "raised"
             /\ error = "ValueError"
             /\ client = "closed"
             /\ forwarder = "none"
             /\ conn = "none"

C1_Witness ==
    /\ fingerprint # Absent
    /\ fingerprint # expected_fingerprint
    /\ authenticated
    /\ spc = "raised"

\* C2 as stated: whenever the login is accepted and the fingerprint equals
\* expected_fingerprint, the session is established and the forwarder
\* started; no other check of the host key can make the call fail.
C2_SoleGate ==
    (/\ ConnectSettled
     /\ ssh_key_valid
     /\ login_ok
     /\ ComputeFingerprint(server_key) = expected_fingerprint)
        => authenticated /\ verified /\ forwarder = "started"

\* C2 as amended: whenever the host key passes the known-hosts check of the
\* client (system host keys, reject policy), the login is accepted and the
\* fingerprint equals expected_fingerprint, the session is established and
\* the forwarder started.
C2_SecondGate ==
    (/\ ConnectSettled
     /\ ssh_key_valid
     /\ known_hosts = "match"
     /\ login_ok
     /\ ComputeFingerprint(server_key) = expected_fingerprint)
        => authenticated /\ verified /\ forwarder = "started"

C2_Witness ==
    /\ ConnectSettled
    /\ known_hosts = "match"
    /\ ComputeFingerprint(server_key) = expected_fingerprint
    /\ authenticated
    /\ verified
    /\ forwarder = "started"

\* C3: no table copy happens unless the authentication and the fingerprint
\* check both succeeded earlier in the run; a failure of either ends start()
\* with the exception before process_all_routes is reached.
C3_NoCopyBeforeAuth ==
    /\ (copy_calls > 0 \/ spc = "process_all_routes")
          => authenticated /\ verified
    /\ error \in {"SSHException", "BadHostKeyException",
                  "AuthenticationException", "ValueError"}
          => spc = "raised" /\ copy_calls = 0 /\ routing = None

C3_Witness ==
    /\ copy_calls > 0
    /\ authenticated
    /\ verified

(***************************************************************************)
(* Properties of copy_local_to_remote_via_dblink_values(), under SpecCopy. *)
(***************************************************************************)
Sqls(kinds) == {k \in DOMAIN executed : executed[k].sql \in kinds}

\* chunks whose BEGIN was attempted
Attempted == Cardinality(Sqls({"BEGIN"}))

\* chunks the fetched rows are partitioned into
NumChunks ==
    IF batch_size > 0 THEN (Len(rows) + batch_size - 1) \div batch_size ELSE 0

Logged(msg) == {k \in DOMAIN log : log[k].msg = msg}

AfterFetch ==
    {"enter_loop", "chunk", "exec", "commit", "rollback", "final_commit", "done"}

\* C4: a call that returns after the chunk loop returns True exactly when
\* every fetched row is at the destination.
C4_TrueIffAllApplied ==
    (cpc = "done" /\ rows # <<>>)
        => /\ result \in {"True", "False"}
           /\ result = "True" <=> Range(rows) \subseteq dest

C4_Witness ==
    /\ cpc = "done"
    /\ result = "True"
    /\ Len(outcome) > 1
    /\ Range(rows) \subseteq dest

\* C5: whatever chunks fail, every failed chunk is rolled back and logged and
\* every later chunk is attempted: when the call has ended, as many chunks
\* were attempted as the rows were partitioned into, each with its outcome.
C5_NoEarlyAbort ==
    (cpc \in {"done", "raised"} /\ Attempted > 0)
        => /\ Attempted = NumChunks
           /\ Len(outcome) = Attempted
           /\ Cardinality(Logged("Chunk failed"))
                 = Cardinality({k \in DOMAIN outcome : outcome[k] = "RolledBack"})

\* C6: BEGIN, COMMIT and ROLLBACK of a chunk go to the destination through
\* dblink, and a processed chunk is either wholly at the destination and
\* counted as applied, or not at all at the destination and counted as failed.
C6_PerBatchAtomicity ==
    /\ \A k \in Sqls({"BEGIN", "COMMIT", "ROLLBACK"}) : executed[k].on = "dblink"
    /\ cpc \in {"chunk", "final_commit", "done", "raised"}
          => \A c \in 1..Attempted :
                LET R == Chunk(rows, (c - 1) * batch_size, batch_size) IN
                \/ /\ R \subseteq dest
                   /\ c \in DOMAIN outcome
                   /\ outcome[c] = "Committed"
                \/ /\ R \cap dest = {}
                   /\ c \in DOMAIN outcome
                   /\ outcome[c] = "RolledBack"

\* C7: when the fetch returns no row the call returns False at once with the
\* warning "No rows to copy." and no chunk statement; the warning is never
\* logged in a call in which a chunk failed.
C7_ZeroRows ==
    /\ (cpc \in AfterFetch /\ rows = <<>>)
          => /\ cpc = "done"
             /\ result = "False"
             /\ Logged("No rows to copy.") # {}
             /\ Sqls({"BEGIN", "INSERT", "COMMIT", "ROLLBACK"}) = {}
    /\ Logged("No rows to copy.") # {}
          => /\ rows = <<>>
             /\ Logged("Chunk failed") = {}
             /\ Sqls({"ROLLBACK"}) = {}
    /\ (cpc = "done" /\ rows # <<>>) => Logged("No rows to copy.") = {}

C7_Witness ==
    /\ cpc = "done"
    /\ result = "False"
    /\ rows = <<>>
    /\ local_cols # {}
    /\ Logged("No rows to copy.") # {}

NoOverlap == Range(RemoteColNames(remote_table_cols)) \cap local_table_cols = {}

\* C8: when no destination column is a source column the call never fetches
\* a row nor applies a chunk and never returns; with destination columns
\* present it ends with ValueError once registration and both column
\* lookups are done.
C8_NoOverlapAborts ==
    NoOverlap
        => /\ cpc \notin AfterFetch
           /\ Sqls({"SELECT rows", "BEGIN", "INSERT"}) = {}
           /\ rows = <<>>
           /\ cpc = "reconcile" => Sqls({"CREATE SERVER", "CREATE USER MAPPING"}) # {}
           /\ (cpc = "raised" /\ Sqls({"SELECT information_schema.columns"}) # {}
                 /\ alive /\ txn # "aborted")
                 => raised = "ValueError"

C8_Witness ==
    /\ NoOverlap
    /\ remote_cols # <<>>
    /\ local_cols # {}
    /\ cpc = "raised"
    /\ raised = "ValueError"
    /\ Sqls({"CREATE SERVER"}) # {}

Pos(s, c) == CHOOSE k \in DOMAIN s : s[k] = c

\* C9: the ColumnSet is the destination column list, in destination ordinal
\* order, restricted to the names the source has.
C9_ReconcileOrder ==
    (cpc \in AfterFetch \cup {"fetch"} \/ common_cols # <<>>)
        => LET names == RemoteColNames(remote_table_cols) IN
           /\ Range(common_cols) = Range(names) \cap local_table_cols
           /\ \A a, b \in DOMAIN common_cols :
                 a < b => Pos(names, common_cols[a]) < Pos(names, common_cols[b])

C9_Witness ==
    /\ cpc = "fetch"
    /\ common_cols = <<"id", "name">>
    /\ "ignored" \in local_cols
    /\ Len(remote_cols) = 2

(***************************************************************************)
(* Properties of the registration, under SpecReg.                          *)
(***************************************************************************)
\* C10: after the registration step the named server and its user mapping
\* carry the host, port, database, user and password of the current call.
C10_NoStaleBinding ==
    cpc = "describe_remote"
        => servers[Unquoted(remote_server)]
              = [opts |-> remote_opts, mapping |-> remote_cred]

\* C11: in every successive call for a destination the registration never
\* ends with an "already exists" error, and the server the call is about to
\* create does not exist any more when CREATE SERVER is reached: the call has
\* dropped it.
C11_DropThenCreate ==
    /\ raised # "DuplicateObject"
    /\ cpc = "create_server" => servers[Unquoted(remote_server)] = Absent

(***************************************************************************)
(* Properties of _forward_tunnel(), under SpecFwd.                         *)
(***************************************************************************)
Ident(n) == [k \in 1..n |-> k]

InOrder(seq) == \A a, b \in DOMAIN seq : a < b => seq[a] < seq[b]

EndOfStream == {"client_eof", "chan_eof"}

\* C12: on every forwarded connection the bytes arrive in the order they
\* were written, and once a zero-length read has ended the relay every byte
\* the handler had read from a side has been handed on, and every byte a
\* side wrote before its half-close has been delivered to the other side.
C12_RelaySymmetry ==
    \A c \in Conns :
        /\ InOrder(up[c].got)
        /\ InOrder(down[c].got)
        /\ ended[c] \in EndOfStream
              => /\ up[c].got = Ident(up[c].read)
                 /\ down[c].got = Ident(down[c].read)
                 /\ up[c].eof => up[c].got = Ident(up[c].written)
                 /\ down[c].eof => down[c].got = Ident(down[c].written)

\* C13: a zero-length read from the client socket or from the channel ends
\* the relay of that connection: the handler leaves its loop, nothing keeps
\* it from the teardown, and when it has returned the channel and the client
\* socket are closed, by one close() call each.
C13_EndOfStreamTeardown ==
    \A c \in Conns :
        /\ ended[c] \in EndOfStream <=> hpc[c] \in {"close", "returned"} /\ chan[c] # "none"
        /\ hpc[c] = "close" => ENABLED CloseBoth(c)
        /\ (hpc[c] = "returned" /\ ended[c] \in EndOfStream)
              => /\ chan[c] = "closed"
                 /\ client_sock[c] = "closed"
                 /\ closes[c] = <<"chan", "client_sock">>

C13_Witness ==
    \E c \in Conns :
        /\ hpc[c] = "returned"
        /\ ended[c] = "chan_eof"
        /\ up[c].got # <<>>
        /\ closes[c] = <<"chan", "client_sock">>

\* C14: when a read or a write on the client socket or the channel raises,
\* the relay of that connection ends and both ends are closed: no connection
\* whose relay has stopped keeps an end open.
C14_ErrorTeardown ==
    \A c \in Conns :
        /\ ended[c] = "error" => hpc[c] \in {"close", "returned", "died"}
        /\ (hpc[c] \in {"returned", "died"} /\ chan[c] # "none")
              => chan[c] = "closed" /\ client_sock[c] = "closed"

\* C15: when open_channel gives no channel or raises for an accepted client,
\* the socket of that client is closed once its handler has ended, and the
\* accept loop is still accepting.
C15_NoChannelClosesClient ==
    \A c \in Conns :
        ended[c] \in {"no_channel", "channel_error"}
            => /\ hpc[c] \in {"returned", "died"}
               /\ client_sock[c] = "closed"
               /\ fpc = "accept"

\* a handler that waits: in select() with no side readable, or in send()
\* to a peer that does not drain
Stalled(c) ==
    \/ hpc[c] = "select" /\ Ready(c) = {}
    \/ hpc[c] = "send_blocked"

Running(c) ==
    /\ hpc[c] \in {"open_channel", "select", "from_client", "from_chan", "close"}
    /\ ~Stalled(c)

HandlerStep(c) ==
    \/ OpenChannel(c)
    \/ Select(c)
    \/ FromClient(c)
    \/ FromChan(c)
    \/ CloseBoth(c)

\* C16: whatever the other connections do (stalled in a read or in a send,
\* ended by an error), the accept loop accepts a waiting client, and every
\* handler that is not itself waiting can take its next step; the accept loop
\* is never anywhere but in accept().
C16_Independence ==
    /\ (listener = "listening" /\ \E c \in Conns : hpc[c] = "queued")
          => fpc = "accept" /\ ENABLED Accept
    /\ \A c \in Conns : Running(c) => ENABLED HandlerStep(c)

C16_Witness ==
    /\ hpc[1] = "send_blocked"
    /\ hpc[2] \in {"select", "from_client", "from_chan"}
    /\ up[2].got # <<>>

\* C17: once the run has ended and the session is closed, and nothing more
\* can happen, the accept loop has stopped, the listening socket is closed
\* and no client socket and no channel is open.
C17_Cancellation ==
    (cancelled /\ ~ENABLED FwdNext)
        => /\ fpc \notin {"bind", "accept"}
           /\ listener # "listening"
           /\ \A c \in Conns : client_sock[c] # "open" /\ chan[c] # "open"

(***************************************************************************)
(* Properties of process_all_routes(), under SpecRoute.                    *)
(***************************************************************************)
RECURSIVE PairsUpTo(_, _, _)
PairsUpTo(rt, n, kinds) ==
    IF n = 0
       THEN <<>>
       ELSE PairsUpTo(rt, n - 1, kinds)
               \o (IF rt[n].port.kind \in kinds
                      THEN [j \in 1..Len(rt[n].tables) |-> <<n, rt[n].tables[j]>>]
                      ELSE <<>>)

\* the (destination, table) pairs of a routing table, in routing order
Pairs(rt) == PairsUpTo(rt, Len(rt), {"absent", "int", "str"})

\* those of the destinations whose port is an int or omitted
IntPortPairs(rt) == PairsUpTo(rt, Len(rt), {"absent", "int"})

\* the calls made are those of the pairs ps, one each and in that order, with
\* the source table name as destination table name and the defaults for an
\* omitted schema and port
DispatchedAs(ps) ==
    /\ Len(invoked) = Len(ps)
    /\ \A j \in DOMAIN invoked :
          LET a == invoked[j].args
              cfg == routes[ps[j][1]]
          IN  /\ a.remote_host = cfg.host
              /\ a.local_table = ps[j][2]
              /\ a.remote_table = ps[j][2]
              /\ a.remote_db = cfg.db
              /\ a.remote_schema = IF cfg.schema = <<>> THEN "public" ELSE cfg.schema[1]
              /\ a.remote_port = IF cfg.port.kind = "absent" THEN "5432" ELSE cfg.port.text

\* C18 as stated: when process_all_routes has returned, the copy was called
\* exactly once for each (destination, table) pair of the routing table, in
\* routing order, with the destination table named as the source table, the
\* schema "public" and the port 5432 where the entry omits them.
C18_EveryPairOnce ==
    rpc = "done" => DispatchedAs(Pairs(routes))

\* C18 as amended: the same for the pairs of the destinations whose port is
\* an int or omitted; for a destination whose port is no int no copy is
\* called, and a TypeError is logged for each of its tables.
C18_IntPortPairsOnce ==
    rpc = "done"
        => /\ DispatchedAs(IntPortPairs(routes))
           /\ \A k \in DOMAIN routes :
                 routes[k].port.kind = "str"
                     => /\ \A j \in DOMAIN invoked : invoked[j].args.remote_host # k
                        /\ \A t \in Range(routes[k].tables) :
                              \E j \in DOMAIN route_log :
                                  route_log[j] = RouteRec("Error", routes[k], t, "TypeError")

C18_Witness ==
    /\ rpc = "done"
    /\ Len(routes) = 2
    /\ routes[1].port = NoPort
    /\ routes[1].schema = <<>>
    /\ routes[2].port = IntPort("5555")
    /\ routes[2].schema # <<>>
    /\ Len(invoked) = 4

\* C19: no exception of a table copy leaves process_all_routes; each is
\* logged with its table, and when the call has returned every pair of the
\* routing table has been attempted, in routing order, whatever the earlier
\* copies ended with.
C19_FailureIsolation ==
    /\ escaped = None
    /\ rpc # "raised"
    /\ \A j \in DOMAIN invoked :
          invoked[j].ended \in CopyErrors
              => \E m \in DOMAIN route_log :
                    /\ route_log[m].kind = "Error"
                    /\ route_log[m].cls = invoked[j].ended
                    /\ route_log[m].host = invoked[j].args.remote_host
                    /\ route_log[m].table = invoked[j].args.local_table
    /\ rpc = "done"
          => /\ Len(invoked) = Len(IntPortPairs(routes))
             /\ Len(route_log) = Len(Pairs(routes))
             /\ \A j \in DOMAIN route_log :
                   /\ route_log[j].host = Pairs(routes)[j][1]
                   /\ route_log[j].table = Pairs(routes)[j][2]

C19_Witness ==
    /\ rpc = "done"
    /\ Len(invoked) = 4
    /\ invoked[1].ended = "ValueError"
    /\ invoked[2].ended = "returned"
    /\ invoked[3].ended = "ValueError"
    /\ invoked[4].args.remote_host = 2

(***************************************************************************)
(* Properties of _get_remote_cols_and_types(), under SpecCopy.             *)
(***************************************************************************)
PastDescribe == {"describe_local", "reconcile", "fetch"} \cup AfterFetch

\* the last statement executed is the metadata query of the destination
DescribeIsLast ==
    /\ executed # <<>>
    /\ executed[Len(executed)].sql = "SELECT pg_attribute"

\* C20: the (name, type) pairs _get_remote_cols_and_types returns are those
\* the metadata query delivered, in that order; when the query has returned
\* the call fails exactly when it delivered no row, with ValueError; and after
\* a failure of the lookup no source column lookup, no fetch and no chunk
\* statement is executed.
C20_DescribeRemote ==
    /\ remote_cols \in {<<>>, remote_table_cols}
    /\ cpc \in PastDescribe
          => remote_cols = remote_table_cols /\ remote_table_cols # <<>>
    /\ (cpc = "raised" /\ DescribeIsLast /\ alive /\ txn = "open")
          => raised = "ValueError" /\ remote_table_cols = <<>>
    /\ (remote_table_cols = <<>> \/ (cpc = "raised" /\ DescribeIsLast))
          => /\ cpc \notin PastDescribe
             /\ Sqls({"SELECT information_schema.columns", "SELECT rows",
                      "BEGIN", "INSERT"}) = {}
             /\ local_cols = {}
             /\ rows = <<>>
             /\ dest = {}

C20_Witness ==
    /\ cpc = "raised"
    /\ raised = "ValueError"
    /\ DescribeIsLast
    /\ remote_table_cols = <<>>
    /\ local_table_cols # {}
    /\ local_table_rows > 0

(***************************************************************************)
(* Properties of the insert statements, under SpecInsert.                  *)
(***************************************************************************)
\* the type the destination catalog declares for a column
DeclaredType(col) ==
    LET k == CHOOSE n \in DOMAIN remote_table_cols : remote_table_cols[n][1] = col
    IN  remote_table_cols[k][2]

\* the cells of the statement just built for the current chunk
StmtCells ==
    IF cpc # "apply" THEN {}
    ELSE {<<k, j>> \in (DOMAIN insert_stmt.values) \X (DOMAIN insert_stmt.columns) :
             j \in DOMAIN insert_stmt.values[k]}

\* C21: explicit typing.  Every cell of every value tuple of a generated
\* insert statement ends with the cast to the type the destination declares
\* for its column; the cell is NULL::type exactly when the value is null, so
\* no other value, the string "NULL" included, is emitted as the unquoted NULL.
C21_ExplicitTyping ==
    \A p \in StmtCells :
        LET cell == insert_stmt.values[p[1]][p[2]]
            rtype == DeclaredType(insert_stmt.columns[p[2]])
            v == chunk[p[1]][p[2]]
        IN  /\ Len(cell) > 2
            /\ SubSeq(cell, Len(cell) - 1, Len(cell)) = <<"::", rtype>>
            /\ (v.kind = "none") <=> (cell = NULL \o <<"::", rtype>>)
            /\ (v.kind = "none") <=> (Len(cell) > 4 /\ SubSeq(cell, 1, 4) = NULL)

\* a statement with a null and with the string "NULL" in the same column
C21_Witness ==
    /\ cpc = "apply"
    /\ \E a, b \in DOMAIN chunk : \E j \in DOMAIN common_cols :
          /\ chunk[a][j].kind = "none"
          /\ chunk[b][j] = StrV(NULL)
          /\ insert_stmt.values[a][j] = NULL \o <<"::", "text">>
          /\ insert_stmt.values[b][j] = <<Q>> \o NULL \o <<Q, "::", "text">>

\* C22: array literal.  The literal of a list for an array column has the
\* element boundaries and contents of the list: two lists that differ are
\* never written as the same literal.
C22_ArrayLiteral ==
    \A p, q \in StmtCells :
        (/\ p[2] = q[2]
         /\ HasBrackets(DeclaredType(insert_stmt.columns[p[2]]))
         /\ chunk[p[1]][p[2]].kind = "list"
         /\ chunk[q[1]][q[2]].kind = "list"
         /\ insert_stmt.values[p[1]][p[2]] = insert_stmt.values[q[1]][q[2]])
            => chunk[p[1]][p[2]] = chunk[q[1]][q[2]]

\* the value that reaches the quoting of fdw_copy.py 120-123
QuotingInput(v, rtype) ==
    CASE IsJson(v, rtype) -> StrV(JsonDumps(v).text)
      [] v.kind = "bytes" -> DecodeFrom(v, 1)
      [] OTHER -> v

\* the cell went through the quoting and the driver-level quoting raised
FellBack(v, rtype) ==
    /\ v.kind # "none"
    /\ ~(v.kind = "list" /\ HasBrackets(rtype))
    /\ ~(IsJson(v, rtype) /\ JsonDumps(v).exc # None)
    /\ AdaptQuoted(QuotingInput(v, rtype)).exc # None

C30_Alignment ==
    cpc = "apply" =>
        /\ insert_stmt.columns = common_cols
        /\ Len(insert_stmt.values) = Len(chunk)
        /\ \A k \in DOMAIN insert_stmt.values :
              /\ Len(insert_stmt.values[k]) = Len(common_cols)
              /\ chunk[k] = rows[i + k]
              /\ \A j \in DOMAIN common_cols :
                    LET rtype == DeclaredType(common_cols[j])
                    IN  /\ rows[i + k][j] = source_rows[i + k][common_cols[j]]
                        /\ insert_stmt.values[k][j]
                              = Literal(rows[i + k][j], rtype).text \o <<"::", rtype>>

\* a statement of two rows for a column list that leaves out a destination column
C30_Witness ==
    /\ cpc = "apply"
    /\ Len(insert_stmt.values) = 2
    /\ Len(common_cols) < Len(remote_cols)
    /\ insert_stmt.columns # SubSeq(RemoteColNames(remote_cols), 1, Len(common_cols))

(***************************************************************************)
(* Properties of the cleanup of start(), under Spec.                       *)
(***************************************************************************)
\* the connection and the SSH client are closed in this order, after the routes
ClosedInOrder ==
    /\ conn = "closed" =>
          /\ spc \in {"close_ssh", "done"}
          /\ route > routing
          /\ copy_calls = routing
    /\ (client = "closed" /\ verified) => conn = "closed"
    /\ spc = "done" => (conn = "closed" /\ client = "closed")

\* a copy runs on the open connection and session; what is closed stays closed
CloseStep ==
    /\ copy_calls' # copy_calls =>
          (conn = "open" /\ client = "connected" /\ conn' = "open"
              /\ client' = "connected")
    /\ conn = "closed" => conn' = "closed"
    /\ client = "closed" => client' = "closed"

\* C24: start() closes the database connection and the SSH client once each
\* and only after process_all_routes has returned, that is after every
\* (destination, table) pair was attempted; no copy runs on a closed
\* connection or a closed session.
C24_CloseAfterRoutes == [](ClosedInOrder) /\ [][CloseStep]_vars

\* start() has returned after the copies of a full routing table
C24_Witness ==
    /\ spc = "done"
    /\ routing = MaxRoutes
    /\ copy_calls = MaxRoutes
    /\ conn = "closed"
    /\ client = "closed"

(***************************************************************************)
(* Properties of the steps of a table copy and of its chunk loop, under    *)
(* SpecCopy.                                                               *)
(***************************************************************************)
\* the step of the table copy a position belongs to
Phase(p) ==
    CASE p \in {"create_extension", "drop_server", "drop_commit", "create_server",
                "create_user_mapping", "select_server", "reg_commit"} -> 1
      [] p = "describe_remote" -> 2
      [] p = "describe_local" -> 3
      [] p = "reconcile" -> 4
      [] p = "fetch" -> 5
      [] p \in {"enter_loop", "chunk", "exec", "commit", "rollback"} -> 6
      [] p = "final_commit" -> 7
      [] OTHER -> 8

\* the statements that fetch or apply rows
RowSqls == Sqls({"SELECT rows", "BEGIN", "INSERT"})

\* from the fetch on the ColumnSet and the DestinationTypeMap are those of the
\* catalogs, and rows are fetched and applied after the registration only
ColumnsFixed ==
    /\ Phase(cpc) \in 5..7 =>
          /\ remote_cols = remote_table_cols
          /\ remote_cols # <<>>
          /\ common_cols = CommonCols(RemoteColNames(remote_table_cols), local_table_cols)
          /\ common_cols # <<>>
    /\ RowSqls # {} =>
          /\ servers[Unquoted(remote_server)] # Absent
          /\ \E k \in Sqls({"CREATE SERVER"}) : \A m \in RowSqls : k < m
          /\ \E k \in Sqls({"SELECT pg_attribute"}) : \A m \in RowSqls : k < m
          /\ \E k \in Sqls({"SELECT information_schema.columns"}) :
                \A m \in RowSqls : k < m

\* a step stays in its phase, goes on to the next or ends the call, and
\* leaves the columns and types alone once the fetch is reached
PhaseStep ==
    /\ Phase(cpc') \in {Phase(cpc), Phase(cpc) + 1, 8}
    /\ Phase(cpc) >= 5 => UNCHANGED <<remote_cols, common_cols>>

\* C25: a table copy visits its steps in the order registration, destination
\* description, source column lookup, reconciliation, row fetch, chunks,
\* done; ColumnSet and DestinationTypeMap are fixed before the first row is
\* fetched and never change afterwards, and no row is fetched or applied
\* before the registration.
C25_StateMachine == [](ColumnsFixed) /\ [][PhaseStep]_vars

\* a call that went through every step, one chunk rolled back and one committed
C25_Witness ==
    /\ cpc = "done"
    /\ outcome = <<"RolledBack", "Committed">>
    /\ common_cols = <<"id", "name">>

\* positions inside the transaction of a chunk
InChunk == {"exec", "commit", "rollback"}

\* C26: chunks are sequential.  A BEGIN is issued only when every earlier
\* chunk has its outcome, so at most one chunk is open; consecutive BEGINs
\* are separated by a COMMIT or ROLLBACK; the chunks are taken in the order
\* of the fetched rows.
C26_SequentialChunks ==
    /\ Attempted <= Len(outcome) + 1
    /\ cpc \in InChunk => Attempted = Len(outcome) + 1
    /\ cpc \in {"chunk", "final_commit", "done"} => Attempted = Len(outcome)
    /\ \A a, b \in Sqls({"BEGIN"}) :
          a < b => \E k \in Sqls({"COMMIT", "ROLLBACK"}) : a < k /\ k < b
    /\ cpc \in InChunk \cup {"chunk"} =>
          /\ i = Len(outcome) * batch_size
          /\ \A x \in dest :
                x <= (IF cpc \in {"commit", "rollback"} THEN i + batch_size ELSE i)

\* the second chunk is open after the first was rolled back
C26_Witness ==
    /\ cpc = "commit"
    /\ outcome = <<"RolledBack">>
    /\ Attempted = 2
    /\ i = batch_size

\* C27: every attempted chunk ends committed or rolled back, one or the
\* other; when the call has ended, as many ROLLBACKs were issued as chunks
\* failed, as many rows were counted as the committed chunks hold, and
\* committed and failed chunks together are all the chunks.
C27_OneOutcomePerChunk ==
    (batch_size >= 1 /\ rows # <<>> /\ cpc \in {"done", "raised"}
        /\ Sqls({"SELECT rows"}) # {})
        => /\ Len(outcome) = Attempted
           /\ Cardinality(Sqls({"ROLLBACK"}))
                 = Cardinality({k \in DOMAIN outcome : outcome[k] = "RolledBack"})
           /\ Len(outcome) = NumChunks

\* C28: no failure while a chunk is processed (building the statement,
\* BEGIN, the remote execute, COMMIT, the ROLLBACK of the handler) leaves the
\* call as an exception: once rows are fetched the call returns a boolean.
C28_ChunkErrorsNeverEscape ==
    (batch_size >= 1 /\ rows # <<>>)
        => /\ raised \notin {"TypeError", "InterfaceError"}
           /\ cpc # "raised"

\* the slices the loop of fdw_copy.py 232-233 takes
Slices == [c \in 1..NumChunks |-> Chunk(rows, (c - 1) * batch_size, batch_size)]

\* C29: for batch_size >= 1 the chunks are consecutive slices of the fetched
\* rows, pairwise disjoint, that hold every row once in fetch order; each
\* has batch_size rows but the last, which has 1 to batch_size rows, and
\* there are ceil(n / batch_size) of them.
C29_ChunkPartition ==
    (batch_size >= 1 /\ rows # <<>> /\ Phase(cpc) \in 6..7)
        => /\ NumChunks * batch_size >= Len(rows)
           /\ (NumChunks - 1) * batch_size < Len(rows)
           /\ \A c \in 1..NumChunks :
                 /\ Slices[c] = {rows[k] : k \in ((c - 1) * batch_size + 1)
                                            ..Min(c * batch_size, Len(rows))}
                 /\ c < NumChunks => Cardinality(Slices[c]) = batch_size
                 /\ Cardinality(Slices[c]) \in 1..batch_size
                 /\ \A d \in 1..NumChunks : c # d => Slices[c] \cap Slices[d] = {}
           /\ UNION {Slices[c] : c \in 1..NumChunks} = Range(rows)
           /\ cpc \in InChunk =>
                 /\ Len(outcome) + 1 \in 1..NumChunks
                 /\ Chunk(rows, i, batch_size) = Slices[Len(outcome) + 1]
           /\ cpc = "final_commit" => Len(outcome) = NumChunks

\* three rows in chunks of two: the last chunk, of one row, is open
C29_Witness ==
    /\ Len(rows) = 3
    /\ batch_size = 2
    /\ cpc = "exec"
    /\ i = 2
    /\ Chunk(rows, i, batch_size) = {rows[3]}

(***************************************************************************)
(* The path of the encoder, under SpecInsert.                              *)
(***************************************************************************)
\* the literal of a cell of the statement, without its cast
CellLiteral(p) ==
    SubSeq(insert_stmt.values[p[1]][p[2]], 1, Len(insert_stmt.values[p[1]][p[2]]) - 2)

JsonFamily(rtype) == rtype \in {"json", "jsonb", "JSON", "JSONB"}

\* the quoted JSON text of a value
JsonQuoted(v) == Quote(StrV(JsonDumps(v).text)).text

\* the quoted text of bytes, decoded by the first codec that decodes them
FirstDecoded(v, lit) ==
    \E n \in DOMAIN Codecs :
        /\ Decode(v, Codecs[n]).exc = None
        /\ \A m \in 1..(n - 1) : Decode(v, Codecs[m]).exc # None
        /\ lit = Quote(StrV(Decode(v, Codecs[n]).text)).text

\* the cells of the current chunk that go to the JSON serialization
JsonCells ==
    {<<k, j>> \in (DOMAIN chunk) \X (DOMAIN common_cols) :
        LET v == chunk[k][j]
            rtype == DeclaredType(common_cols[j])
        IN  /\ v.kind # "none"
            /\ ~(v.kind = "list" /\ HasBrackets(rtype))
            /\ (v.kind \in {"dict", "list"} \/ JsonFamily(rtype))}

\* C31: encoder path selection.  The literal of a cell is fixed by the first
\* rule that matches, in this order: a null gives NULL; a list for a type with
\* "[]" gives the array literal; a dict, a list for another type, or any value
\* for a JSON-family type gives the quoted JSON text; bytes give the quoted text
\* of the first codec that decodes them; any other value is quoted as it is.
\* Every non-null value for a JSON-family type goes to the JSON serialization
\* (which alone raises TypeError), and no str, int, date or bytes value for
\* another type is written as its JSON text.
C31_PathSelection ==
    /\ \A p \in StmtCells :
          LET v == chunk[p[1]][p[2]]
              rtype == DeclaredType(insert_stmt.columns[p[2]])
              lit == CellLiteral(p)
          IN  IF v.kind = "none" THEN lit = NULL
              ELSE IF v.kind = "list" /\ HasBrackets(rtype)
                 THEN lit = ArrayLiteral(v.items)
              ELSE IF v.kind \in {"dict", "list"} \/ JsonFamily(rtype)
                 THEN lit = JsonQuoted(v)
              ELSE IF v.kind = "bytes"
                 THEN FirstDecoded(v, lit) /\ lit # JsonQuoted(StrV(v.text))
              ELSE lit = Quote(v).text /\ lit # JsonQuoted(v)
    /\ (cpc = "done" /\ raised = "TypeError") =>
          \E p \in JsonCells : JsonDumps(chunk[p[1]][p[2]]).exc = "TypeError"
    /\ cpc = "apply" =>
          \A p \in JsonCells : JsonDumps(chunk[p[1]][p[2]]).exc = None

\* a statement with bytes that only the second codec decodes, an array
\* literal, a list written as JSON for a type without "[]", and a str and a
\* dict written as JSON for jsonb
C31_Witness ==
    /\ cpc = "apply"
    /\ \E p, q, r1 \in StmtCells :
          /\ chunk[p[1]][p[2]] = BytesV(<<"U+00E9">>, "latin-1")
          /\ CellLiteral(p) = <<Q, "U+00E9", Q>>
          /\ chunk[q[1]][q[2]] = ListV(<<IntV(<<"2">>)>>)
          /\ DeclaredType(insert_stmt.columns[q[2]]) = "integer"
          /\ CellLiteral(q) = <<Q, "[", "2", "]", Q>>
          /\ p[2] = q[2]
          /\ chunk[r1[1]][r1[2]].kind = "list"
          /\ CellLiteral(r1)[2] = "{"

\* a str written as JSON text for a jsonb column
C31_WitnessJson ==
    /\ cpc = "apply"
    /\ \E p \in StmtCells :
          /\ chunk[p[1]][p[2]] = StrV(<<"x">>)
          /\ CellLiteral(p) = <<Q, DQ, "x", DQ, Q>>

(***************************************************************************)
(* The counter of applied rows, under SpecCopy.                            *)
(***************************************************************************)
\* the rows of the committed chunks among the first n attempted
RECURSIVE CommittedRows(_)
CommittedRows(n) ==
    IF n = 0 THEN 0
    ELSE CommittedRows(n - 1)
            + (IF outcome[n] = "Committed" THEN Cardinality(Slices[n]) ELSE 0)

\* the counter moves with the COMMIT of a chunk only, by the rows of that chunk
CounterStep ==
    /\ rows_copied' >= rows_copied
    /\ rows_copied' # rows_copied =>
          /\ cpc = "commit"
          /\ outcome' = Append(outcome, "Committed")
          /\ rows_copied' = rows_copied + Cardinality(Chunk(rows, i, batch_size))
    /\ outcome' = Append(outcome, "RolledBack") => rows_copied' = rows_copied
    /\ (cpc \in InChunk /\ cpc' = "rollback") => rows_copied' = rows_copied
    /\ (cpc = "rollback" /\ cpc' = "done") => rows_copied' = rows_copied

\* C32: the counter of applied rows.  At every point of the chunk loop the
\* counter is the number of rows of the chunks committed so far; it is never
\* above the number of fetched rows; no step decreases it, and the steps of a
\* chunk that fails (its BEGIN, insert or COMMIT raising, the ROLLBACK) leave
\* it unchanged.
C32_AppliedCounter ==
    /\ []((batch_size > 0 /\ cpc \in InChunk \cup AfterFetch) =>
             /\ rows_copied = CommittedRows(Len(outcome))
             /\ rows_copied <= Len(rows))
    /\ [](rows_copied <= Len(rows) \/ cpc \notin AfterFetch)
    /\ [][CounterStep]_vars

\* a committed chunk is counted and the failed chunk after it is not
C32_Witness ==
    /\ cpc = "chunk"
    /\ outcome = <<"Committed", "RolledBack">>
    /\ rows_copied = batch_size
    /\ rows_copied < Len(rows)
    /\ Cardinality(dest) = rows_copied

\* C36: for every batch_size, 0 and the negative ones included, a call that
\* returns False after at least one row was fetched has attempted a chunk and
\* rolled it back, with the chunk failure logged; no call ends by the step of
\* the range being refused, and no call returns with fetched rows that were
\* in no attempted chunk.
C36_EveryRowAttempted ==
    (cpc = "done" /\ rows # <<>>) =>
        /\ result = "False" =>
              /\ Logged("Chunk failed") # {}
              /\ \E k \in DOMAIN outcome : outcome[k] = "RolledBack"
        /\ raised # "ValueError"
        /\ result # None => Attempted * batch_size >= Len(rows)

(***************************************************************************)
(* The session resources of create_pg_connection, under Spec.              *)
(***************************************************************************)
\* create_pg_connection was left by an exception: no connection was returned
ConnectRaised == spc = "raised" /\ conn = "none" /\ client # "none"

\* C35: every exit of create_pg_connection by an exception leaves no session
\* resource behind: the SSH client is not left connected and the forwarder is
\* not left running, after a failed database connection as after a
\* fingerprint mismatch.
C35_NoSessionLeftBehind ==
    ConnectRaised => (client # "connected" /\ forwarder # "started")

(***************************************************************************)
(* The listener across the threads and the runs, under SpecRuns.           *)
(***************************************************************************)
\* C33: under every interleaving of the calling thread with the forwarder
\* thread it has just started, a socket listens at (local_host, local_port)
\* when the database connection is attempted: no attempt is made while the
\* thread of the run has still to bind, and none reaches an address where
\* nothing listens.
C33_ListeningBeforeConnect ==
    /\ \A k \in Runs : reached[k] # 0
    /\ \A k \in Runs : reached[k] # 0 - 1 => tpc[k] # "bind"

\* C34: start() can be run again and again in one process.  When a run has
\* returned, no socket of it listens at the local address; the thread of
\* every run binds the address itself; and the database connection of a run
\* is accepted by the listener of that run and forwarded over the session of
\* that run, never by the listener of an earlier run whose session is closed.
C34_RepeatedRuns ==
    \A k \in Runs :
        /\ session[k] = "closed" => holder # k
        /\ tpc[k] = "failed" => ~(holder < k /\ session[holder] = "closed")
        /\ (reached[k] > 0 /\ reached[k] < k) => session[reached[k]] # "closed"
        /\ (via[k] > 0 /\ via[k] < k) => session[via[k]] # "closed"

====
